---- MODULE Spec2Model ----
(***************************************************************************)
(* Transvoxel polygonizer (VoxelMesherTransvoxel): the regular sweep       *)
(* build_internal, the transition sweep build_transition, the vertex reuse *)
(* caches, the border masks and the build / build_transition_mesh entry    *)
(* points.                                                                 *)
(*                                                                         *)
(* Numbers.  Vertex positions are kept in units of 1/256 voxel (the code   *)
(* computes p0 * t/256 + p1 * (256-t)/256 on small integers, which is      *)
(* exact in single precision).  A normal is kept as the direction of the   *)
(* gradient it is normalised from (the integer vector divided by the gcd   *)
(* of its components), or <<0, 1, 0>> for the null gradient.               *)
(***************************************************************************)
EXTENDS Integers, Sequences, FiniteSets, TLC

\* ------------------------------------------------------------------ bounds
\* Largest lod passed to build.
MaxLod == 1
\* Largest number of voxels of a block that differ from its background.
MaxSpecial == 2

\* --------------------------------------------------------------- constants
MIN_PADDING == 1
MAX_PADDING == 2
AXIS_COUNT == 3
SIDE_COUNT == 6

\* Cube::SIDE_* values, in the order of the border mask bits.
SIDE_NEGATIVE_X == 0
SIDE_POSITIVE_X == 1
SIDE_NEGATIVE_Y == 2
SIDE_POSITIVE_Y == 3
SIDE_NEGATIVE_Z == 4
SIDE_POSITIVE_Z == 5

\* ------------------------------------------------------ integer arithmetic
RECURSIVE BitAnd(_, _)
BitAnd(a, b) ==
  IF a = 0 \/ b = 0 THEN 0
  ELSE (a % 2) * (b % 2) + 2 * BitAnd(a \div 2, b \div 2)

RECURSIVE BitOr(_, _)
BitOr(a, b) ==
  IF a = 0 THEN b
  ELSE IF b = 0 THEN a
  ELSE (IF a % 2 = 1 \/ b % 2 = 1 THEN 1 ELSE 0) + 2 * BitOr(a \div 2, b \div 2)

RECURSIVE BitXor(_, _)
BitXor(a, b) ==
  IF a = 0 THEN b
  ELSE IF b = 0 THEN a
  ELSE ((a + b) % 2) + 2 * BitXor(a \div 2, b \div 2)

Pow2(k) == 2 ^ k

Shl(a, k) == a * Pow2(k)

Shr(a, k) == a \div Pow2(k)

Abs(a) == IF a < 0 THEN -a ELSE a

\* C++ integer division: the quotient is truncated towards zero.
TruncDiv(a, b) ==
  IF (a >= 0 /\ b > 0) \/ (a <= 0 /\ b < 0) THEN Abs(a) \div Abs(b)
  ELSE -(Abs(a) \div Abs(b))

RECURSIVE Gcd(_, _)
Gcd(a, b) == IF b = 0 THEN a ELSE Gcd(b, a % b)

\* ----------------------------------------------------------------- vectors
Vec(x, y, z) == <<x, y, z>>

VAdd(a, b) == <<a[1] + b[1], a[2] + b[2], a[3] + b[3]>>

VScale(a, k) == <<a[1] * k, a[2] * k, a[3] * k>>

\* Vector3i::AXIS_X, AXIS_Y, AXIS_Z are 0, 1, 2; tuples are indexed from 1.
Axis(v, i) == v[i + 1]

\* ------------------------------------------------------------ voxel buffer
\* A block is its size, the uniform flag of the SDF channel, a background
\* raw value, the voxels that differ from it, and the seed of its second
\* data channel.
InBounds(vb, p) ==
  \A i \in 1..3 : p[i] >= 0 /\ p[i] < vb.size[i]

\* VoxelBuffer::get_voxel on CHANNEL_SDF (raw 8-bit value).
RawSdf(vb, p) ==
  IF ~InBounds(vb, p) THEN 0
  ELSE IF p \in DOMAIN vb.sp THEN vb.sp[p] ELSE vb.bg

\* VoxelBuffer::get_voxel on CHANNEL_DATA2 (raw 8-bit value).
RawData2(vb, p) ==
  IF ~InBounds(vb, p) THEN 0
  ELSE (vb.tex + p[1] + 3 * p[2] + 7 * p[3]) % 256

is_uniform(vb) == vb.uniform

\* ----------------------------------------------------- anonymous namespace
tos(v) == v - 128

\* A sign bit that takes zero for negative.
sign_of_nonpositive(v) == IF v <= 0 THEN 1 ELSE 0

sign(v) == IF v < 0 THEN 1 ELSE 0

get_voxel(vb, p) == 255 - RawSdf(vb, p)

\* tos(get_voxel(...)): the signed sample the sweeps work on.
Sample(vb, p) == tos(get_voxel(vb, p))

get_border_mask(pos, min_pos, max_pos) ==
  LET bits(i) == (IF pos[i + 1] = min_pos[i + 1] THEN Shl(1, i * 2) ELSE 0)
               + (IF pos[i + 1] = max_pos[i + 1] THEN Shl(1, i * 2 + 1) ELSE 0)
  IN bits(0) + bits(1) + bits(2)

\* The direction of a gradient: what normalisation keeps of it.
Direction(n) ==
  LET g == Gcd(Gcd(Abs(n[1]), Abs(n[2])), Abs(n[3]))
  IN <<TruncDiv(n[1], g), TruncDiv(n[2], g), TruncDiv(n[3], g)>>

\* n.length_squared() == 0: a sum of squares of components that are
\* multiples of 2^-16 below 1 in magnitude neither underflows nor cancels.
LengthSquaredIsZero(n) == Abs(n[1]) + Abs(n[2]) + Abs(n[3]) = 0

\* A length test that looks at the x component alone.
normalized_not_null_on_x(n) ==
  IF n[1] = 0 THEN <<0, 1, 0>>
  ELSE Direction(n)

normalized_not_null(n) ==
  IF LengthSquaredIsZero(n) THEN <<0, 1, 0>>
  ELSE Direction(n)

\* Central-difference gradient at p, in units of 1/256 (tof).
Gradient(vb, p) ==
  <<Sample(vb, VAdd(p, <<-1, 0, 0>>)) - Sample(vb, VAdd(p, <<1, 0, 0>>)),
    Sample(vb, VAdd(p, <<0, -1, 0>>)) - Sample(vb, VAdd(p, <<0, 1, 0>>)),
    Sample(vb, VAdd(p, <<0, 0, -1>>)) - Sample(vb, VAdd(p, <<0, 0, 1>>))>>

\* Positions are in units of 1/256 (the step of t), offsets in units of
\* 1/1024 (TRANSITION_CELL_SCALE = 0.25 of a position unit); every value the
\* function computes in float is a multiple of the unit and is exact.

\* An offset with no branch for the maximum cell.
get_border_offset_of_min_cell(pos, lod, block_size, min_pos) ==
  [i \in 1..3 |->
     IF pos[i] - 256 * min_pos[i] < 256 * Pow2(lod)
     THEN 256 * Pow2(lod) - (pos[i] - 256 * min_pos[i])
     ELSE 0]

\* get_border_offset: delta starts as the zero vector; p2k = 1 << lod,
\* wk = 0.25 * p2k, p = pos[i] - min_pos[i], s = block_size[i].
get_border_offset(pos, lod, block_size, min_pos) ==
  [i \in 1..3 |->
     IF pos[i] - 256 * min_pos[i] < 256 * Pow2(lod)
     THEN 256 * Pow2(lod) - (pos[i] - 256 * min_pos[i])
     ELSE IF pos[i] - 256 * min_pos[i]
               > 256 * Pow2(lod) * (block_size[i] - 1)
     THEN (256 * Pow2(lod) * block_size[i] - 256
           - (pos[i] - 256 * min_pos[i])) * Pow2(lod)
     ELSE 0]

\* block_size - 3 * Vector3i(MIN_PADDING).
block_size_without_padding(block_size) ==
  VAdd(block_size, VScale(<<1, 1, 1>>, -3 * MIN_PADDING))

\* ------------------------------------------------------------- case tables
\* transvoxel_tables.cpp is data from Lengyel's publication.  The reuse codes
\* are the ones of the paper (Figure 3.8(b) and the transition cell figure);
\* a case lists one vertex per edge whose endpoint samples differ in sign,
\* and its triangles are index triples below the vertex count.

\* Corner i of a regular cell, relative to the cell origin.
corner_offset(i) == <<i % 2, (i \div 2) % 2, (i \div 4) % 2>>

RegularEdges ==
  << <<0, 1>>, <<0, 2>>, <<0, 4>>, <<1, 3>>, <<1, 5>>, <<2, 3>>,
     <<2, 6>>, <<3, 7>>, <<4, 5>>, <<4, 6>>, <<5, 7>>, <<6, 7>> >>

\* High byte of a regular vertex code: (reuseDir << 4) | reuseSlot.
RegularReuseSlot(d) == IF d = 2 THEN 1 ELSE IF d = 1 THEN 2 ELSE 3

RegularReuseNeed(v0, d, b) == IF b # d /\ (v0 \div b) % 2 = 0 THEN b ELSE 0

RegularReuseDir(dir) == IF dir = 0 THEN 8 ELSE dir

RegularReuseCode(v0, v1) ==
  RegularReuseDir(RegularReuseNeed(v0, v1 - v0, 1)
                  + RegularReuseNeed(v0, v1 - v0, 2)
                  + RegularReuseNeed(v0, v1 - v0, 4)) * 16
  + RegularReuseSlot(v1 - v0)

CaseBit(case_code, i) == (case_code \div Pow2(i)) % 2

RegularCaseEdges(case_code) ==
  SelectSeq(RegularEdges,
            LAMBDA e : CaseBit(case_code, e[1]) # CaseBit(case_code, e[2]))

RegularVertexCode(e) == RegularReuseCode(e[1], e[2]) * 256 + e[1] * 16 + e[2]

get_regular_vertex_data(case_code, i) ==
  RegularVertexCode(RegularCaseEdges(case_code)[i + 1])

\* RegularCellData of the class of a case: geometryCounts and the vertex
\* index list (a fan over the vertices of the case).
FanVertexIndex(vc) ==
  [k \in 0..(3 * (vc - 2) - 1) |-> IF k % 3 = 0 THEN 0 ELSE (k \div 3) + (k % 3)]

RegularCellDataOf(vc) ==
  [geometryCounts |-> vc * 16 + (vc - 2), vertexIndex |-> FanVertexIndex(vc)]

get_regular_cell_data(case_code) ==
  RegularCellDataOf(Len(RegularCaseEdges(case_code)))

\* Samples 9..C of a transition cell alias the corners 0, 2, 6, 8.
TransitionAlias(i) ==
  IF i = 9 THEN 0 ELSE IF i = 10 THEN 2 ELSE IF i = 11 THEN 6
  ELSE IF i = 12 THEN 8 ELSE i

\* <<high byte, a, b>>: the reuse code and the endpoints of each edge.
TransitionEdges ==
  << <<35, 0, 1>>, <<36, 1, 2>>, <<21, 0, 3>>, <<69, 1, 4>>, <<133, 2, 5>>,
     <<67, 3, 4>>, <<70, 4, 5>>, <<22, 3, 6>>, <<71, 4, 7>>, <<134, 5, 8>>,
     <<131, 6, 7>>, <<132, 7, 8>>,
     <<40, 9, 10>>, <<25, 9, 11>>, <<137, 10, 12>>, <<136, 11, 12>> >>

\* Bit k of a transition case code is the sign of this sample.
TransitionCaseOrder == <<0, 1, 2, 5, 8, 7, 6, 3, 4>>

TransitionCaseBitOf(s) == (CHOOSE j \in 1..9 : TransitionCaseOrder[j] = s) - 1

TransitionSignOf(case_code, i) ==
  CaseBit(case_code, TransitionCaseBitOf(TransitionAlias(i)))

TransitionCaseEdges(case_code) ==
  SelectSeq(TransitionEdges,
            LAMBDA e : TransitionSignOf(case_code, e[2])
                       # TransitionSignOf(case_code, e[3]))

TransitionVertexCode(e) == e[1] * 256 + e[2] * 16 + e[3]

get_transition_vertex_data(case_code, i) ==
  TransitionVertexCode(TransitionCaseEdges(case_code)[i + 1])

PopCount(case_code) ==
  Cardinality({k \in 0..8 : CaseBit(case_code, k) = 1})

\* Bit 7 of the class: a case and its complement differ in it.
get_transition_cell_class(case_code) ==
  (IF PopCount(case_code) > 4 THEN 128 ELSE 0)
  + Len(TransitionCaseEdges(case_code))

TransitionCellDataOf(vc) ==
  [vertexCount |-> vc, triangleCount |-> vc - 2,
   vertexIndex |-> FanVertexIndex(vc)]

get_transition_cell_data(case_code) ==
  TransitionCellDataOf(Len(TransitionCaseEdges(case_code)))

\* Faulty tables: entry 1 of the regular cases in which corner 5 alone has
\* its sign has the two corner indices exchanged (v1 <= v0), and entry 1 of
\* the transition cases in which sample 5 alone has its sign names one
\* sample twice (equal samples).
FaultyRegularCases == {32, 223}

FaultyTransitionCases == {8, 503}

ExchangedCorners(rvd) ==
  (rvd \div 256) * 256 + (rvd % 16) * 16 + ((rvd \div 16) % 16)

RepeatedSample(edge_code) ==
  (edge_code \div 16) * 16 + ((edge_code \div 16) % 16)

\* The vertex data the program reads, from the tables it is linked with.
LinkedRegularVertexData(tbl, case_code, i) ==
  IF tbl = "faulty" /\ case_code \in FaultyRegularCases /\ i = 1
  THEN ExchangedCorners(get_regular_vertex_data(case_code, i))
  ELSE get_regular_vertex_data(case_code, i)

LinkedTransitionVertexData(tbl, case_code, i) ==
  IF tbl = "faulty" /\ case_code \in FaultyTransitionCases /\ i = 1
  THEN RepeatedSample(get_transition_vertex_data(case_code, i))
  ELSE get_transition_vertex_data(case_code, i)

transition_corner_data ==
  <<48, 33, 32, 18, 64, 130, 16, 129, 128, 55, 39, 23, 135>>

get_transition_corner_data(i) == transition_corner_data[i + 1]

\* ------------------------------------------------------------ reuse caches
\* A mesher is handled as a record st: the four output buffers, the two
\* caches and _block_size, with the status of the running call ("ok", "fail"
\* after an ERR_FAIL_COND, "crash" after a CRASH_COND) and two histories:
\* vlog has one entry per vertex of the output buffer (cell, edge and branch
\* that emitted it), rlog one entry per cache lookup of the running sweep,
\* and last_cell is the last cell that appended triangles, with its
\* cell_vertex_indices and the length of the index buffer before it.

EmptyReuseCell == <<-1, -1, -1, -1>>

EmptyReuseTransitionCell == <<-1, -1, -1, -1, -1, -1, -1, -1, -1, -1>>

reset_reuse_cells(st, block_size) ==
  [st EXCEPT !.block_size = block_size,
             !.cache = [j \in 0..1 |->
                         [i \in 0..(block_size[1] * block_size[2] - 1) |->
                            EmptyReuseCell]]]

reset_reuse_cells_2d(st, block_size) ==
  [st EXCEPT !.cache_2d = [j \in 0..1 |->
                            [i \in 0..(block_size[1] - 1) |->
                               EmptyReuseTransitionCell]]]

\* A cache of one deck.
ReuseDeckSingle(pos) == 0

\* get_reuse_cell: the deck and the index inside it.
ReuseDeck(pos) == pos[3] % 2

ReuseIndex(st, pos) == pos[2] * st.block_size[2] + pos[1]

\* CRASH_COND(i >= _cache[j].size()), i being unsigned.
ReuseCrash(st, pos) ==
  ReuseIndex(st, pos) \notin DOMAIN st.cache[ReuseDeck(pos)]

get_reuse_cell(st, pos) == st.cache[ReuseDeck(pos)][ReuseIndex(st, pos)]

Reuse2dCrash(st, x, y) == x \notin DOMAIN st.cache_2d[y % 2]

get_reuse_cell_2d(st, x, y) == st.cache_2d[y % 2][x]

\* Writes vertices[k] of the reuse cell at pos.
SetReuse(st, pos, k, v) ==
  [st EXCEPT !.cache[ReuseDeck(pos)][ReuseIndex(st, pos)][k + 1] = v]

SetReuse2d(st, x, y, k, v) ==
  [st EXCEPT !.cache_2d[y % 2][x][k + 1] = v]

\* ----------------------------------------------------------------- output
NoCell == [sweep |-> "none"]

\* A clearing that forgets the vertices with their normals and colours.
clear_output_keeping_vertices(st) ==
  [st EXCEPT !.indices = <<>>, !.last_cell = NoCell]

\* A clearing that forgets the index buffer.
clear_output_keeping_indices(st) ==
  [st EXCEPT !.normals = <<>>, !.vertices = <<>>, !.extra = <<>>,
             !.vlog = <<>>, !.last_cell = NoCell]

\* A clearing that leaves the normals of the last sweep in their buffer.
clear_output_keeping_normals(st) ==
  [st EXCEPT !.indices = <<>>, !.vertices = <<>>, !.extra = <<>>,
             !.vlog = <<>>, !.last_cell = NoCell]

clear_output(st) ==
  [st EXCEPT !.indices = <<>>, !.normals = <<>>, !.vertices = <<>>,
             !.extra = <<>>, !.vlog = <<>>, !.last_cell = NoCell]

\* A vertex index counted from one.
EmitIndexFromOne(st) == Len(st.vertices) + 1

\* The index emit_vertex returns.
EmitIndex(st) == Len(st.vertices)

\* An emission that leaves the padding in the position.
emit_vertex_padded(st, primary, normal) ==
  [st EXCEPT !.vertices = Append(@, primary), !.normals = Append(@, normal)]

\* emit_vertex: unpads the position and appends it with its normal.
emit_vertex(st, primary, normal) ==
  [st EXCEPT
     !.vertices = Append(@, VAdd(primary, VScale(<<1, 1, 1>>,
                                                  -256 * MIN_PADDING))),
     !.normals = Append(@, normal)]

\* A vertex left without its colour.
PushExtraSkipped(st, texture_idx, border_mask) == st

\* _output_extra.push_back(Color(0.0, texture_idx, 0.0, border_mask)).
PushExtra(st, texture_idx, border_mask) ==
  [st EXCEPT !.extra = Append(@, <<0, texture_idx, 0, border_mask>>)]

ScaleExtra(c, factor) == <<c[1] * factor, c[2] * factor, c[3] * factor, c[4]>>

\* A scaling that leaves the positions as they are.
scale_output_extra_only(st, factor) ==
  [st EXCEPT !.extra = [k \in DOMAIN @ |-> ScaleExtra(@[k], factor)]]

scale_output(st, factor) ==
  [st EXCEPT
     !.vertices = [k \in DOMAIN @ |-> VScale(@[k], factor)],
     !.extra = [k \in DOMAIN @ |-> ScaleExtra(@[k], factor)]]

\* fill_surface_arrays, with the history of the vertices it copies.
fill_surface_arrays(st) ==
  [vertices |-> st.vertices, normals |-> st.normals, extra |-> st.extra,
   indices |-> st.indices, vlog |-> st.vlog]

\* ---------------------------------------------------------- build_internal
MinPos == <<MIN_PADDING, MIN_PADDING, MIN_PADDING>>

MaxPos(block_size) ==
  <<block_size[1] - MAX_PADDING, block_size[2] - MAX_PADDING,
    block_size[3] - MAX_PADDING>>

MaxPosC(block_size) == VAdd(MaxPos(block_size), <<-1, -1, -1>>)

dir_to_prev_vec(dir) ==
  <<-(dir % 2), -((dir \div 2) % 2), -((dir \div 4) % 2)>>

\* A mask that takes every preceding cell for present.
direction_validity_mask_all(pos, min_pos) == 7

direction_validity_mask(pos, min_pos) ==
  (IF pos[1] > min_pos[1] THEN 1 ELSE 0)
  + (IF pos[2] > min_pos[2] THEN 2 ELSE 0)
  + (IF pos[3] > min_pos[3] THEN 4 ELSE 0)

\* A preceding cell that is never looked at.
ReusePresentNever(reuse_dir, validity_mask) == FALSE

\* bool present = (reuse_dir & direction_validity_mask) == reuse_dir.
ReusePresent(reuse_dir, validity_mask) ==
  BitAnd(reuse_dir, validity_mask) = reuse_dir

\* An interpolation position measured from the other endpoint.
InterpolationTFromSample0(sample0, sample1) ==
  TruncDiv(Shl(sample0, 8), sample0 - sample1)

\* int t = (sample1 << 8) / (sample1 - sample0).
InterpolationT(sample0, sample1) ==
  TruncDiv(Shl(sample1, 8), sample1 - sample0)

\* The part of the border mask above the six cell bits, in each branch.
InteriorBorderBits(p0, p1, min_pos, max_pos) ==
  Shl(BitAnd(get_border_mask(p0, min_pos, max_pos),
             get_border_mask(p1, min_pos, max_pos)), 6)

\* Corner bits shifted by one bit too few.
CornerBorderBitsShift5(p, min_pos, max_pos) ==
  Shl(get_border_mask(p, min_pos, max_pos), 5)

CornerBorderBits(p, min_pos, max_pos) ==
  Shl(get_border_mask(p, min_pos, max_pos), 6)

\* A cell mask computed against max_pos, which no cell position reaches.
cell_border_mask_max_pos(pos, block_size) ==
  get_border_mask(pos, MinPos, MaxPos(block_size))

\* uint8_t cell_border_mask of a regular cell.
cell_border_mask(pos, block_size) ==
  get_border_mask(pos, MinPos, MaxPosC(block_size))

\* An owned vertex that is never stored.
OwnsVertexNever(reuse_dir) == FALSE

\* if (reuse_dir & 8): the cell owns the vertex and stores it.
OwnsVertex(reuse_dir) == BitAnd(reuse_dir, 8) # 0

\* The context of a regular cell: corners, samples, case code, masks.
RegularCellContext(vb, pos) ==
  LET corner_positions == [i \in 0..7 |-> VAdd(pos, corner_offset(i))]
      cell_samples == [i \in 0..7 |-> Sample(vb, corner_positions[i])]
      code == sign(cell_samples[0]) + Shl(sign(cell_samples[1]), 1)
              + Shl(sign(cell_samples[2]), 2) + Shl(sign(cell_samples[3]), 3)
              + Shl(sign(cell_samples[4]), 4) + Shl(sign(cell_samples[5]), 5)
              + Shl(sign(cell_samples[6]), 6) + Shl(sign(cell_samples[7]), 7)
  IN [pos |-> pos,
      corner_positions |-> corner_positions,
      cell_samples |-> cell_samples,
      texture_idx |-> RawData2(vb, corner_positions[0]),
      case_code |-> code,
      min_pos |-> MinPos,
      max_pos |-> MaxPos(vb.size),
      direction_validity_mask |-> direction_validity_mask(pos, MinPos),
      cell_border_mask |-> cell_border_mask(pos, vb.size)]

\* border_mask of a regular vertex: the cell mask and, when the cell is on
\* a face, the bits of the edge above it.
RegularBorderMask(cell_mask, edge_bits) ==
  IF cell_mask > 0 THEN BitOr(cell_mask, edge_bits) ELSE cell_mask

\* Emits one vertex of a regular cell and records it as vertex i of the cell.
RegularEmitMasked(st, cs, i, v0, v1, t, branch, primary, normal, border_mask) ==
  [PushExtra(emit_vertex(st, primary, normal), cs.texture_idx, border_mask)
   EXCEPT
     !.cell_vertex_indices[i] = EmitIndex(st),
     !.vlog = Append(@, [sweep |-> "regular", cell |-> cs.pos,
                         origin |-> cs.corner_positions[0],
                         a |-> v0, b |-> v1,
                         p0 |-> cs.corner_positions[v0],
                         p1 |-> cs.corner_positions[v1],
                         t |-> t, branch |-> branch,
                         texture_idx |-> cs.texture_idx,
                         border_mask |-> border_mask])]

RegularEmit(st, cs, i, v0, v1, t, branch, primary, gradient, edge_bits) ==
  RegularEmitMasked(st, cs, i, v0, v1, t, branch, primary,
                    normalized_not_null(gradient),
                    RegularBorderMask(cs.cell_border_mask, edge_bits))

\* Reads vertices[slot] of the reuse cell at cache_pos.
RegularLookupAt(st, cs, i, v0, v1, t, cache_pos, slot) ==
  IF ReuseCrash(st, cache_pos) THEN [st EXCEPT !.status = "crash"]
  ELSE [st EXCEPT
          !.cell_vertex_indices[i] = get_reuse_cell(st, cache_pos)[slot + 1],
          !.rlog = Append(@, [sweep |-> "regular", cell |-> cs.pos,
                              target |-> cache_pos, slot |-> slot,
                              got |-> get_reuse_cell(st, cache_pos)[slot + 1],
                              p0 |-> cs.corner_positions[v0],
                              p1 |-> cs.corner_positions[v1],
                              t |-> t])]

\* Reads vertices[slot] of the preceding cell in direction reuse_dir, when
\* that cell is present.
RegularLookup(st, cs, i, v0, v1, t, reuse_dir, slot) ==
  IF ReusePresent(reuse_dir, cs.direction_validity_mask)
  THEN RegularLookupAt(st, cs, i, v0, v1, t,
                       VAdd(cs.pos, dir_to_prev_vec(reuse_dir)), slot)
  ELSE st

\* p0 * t0 + p1 * t1, in units of 1/256.
Interpolate(q0, q1, t) == VAdd(VScale(q0, t), VScale(q1, 256 - t))

\* The vertex is kept in the reuse cell of the cell when the edge is one the
\* cell owns.
RegularKeep(st, cs, i, reuse_dir, reuse_vertex_index) ==
  IF OwnsVertex(reuse_dir)
  THEN SetReuse(st, cs.pos, reuse_vertex_index, st.cell_vertex_indices[i])
  ELSE st

\* Vertex inside the edge, after the lookup.
RegularInteriorCreate(st, cs, grad, i, v0, v1, t, reuse_dir, reuse_vertex_index) ==
  IF st.status # "ok" THEN st
  ELSE IF ~ReusePresent(reuse_dir, cs.direction_validity_mask)
          \/ st.cell_vertex_indices[i] = -1
  THEN RegularKeep(
         RegularEmit(st, cs, i, v0, v1, t, "interior",
                     Interpolate(cs.corner_positions[v0],
                                 cs.corner_positions[v1], t),
                     Interpolate(grad[v0], grad[v1], t),
                     InteriorBorderBits(cs.corner_positions[v0],
                                        cs.corner_positions[v1],
                                        cs.min_pos, cs.max_pos)),
         cs, i, reuse_dir, reuse_vertex_index)
  ELSE st

\* Vertex inside the edge.
RegularInterior(st, cs, grad, i, v0, v1, t, reuse_dir, reuse_vertex_index) ==
  RegularInteriorCreate(
    RegularLookup(st, cs, i, v0, v1, t, reuse_dir, reuse_vertex_index),
    cs, grad, i, v0, v1, t, reuse_dir, reuse_vertex_index)

\* Vertex on the max corner of the cell: the cell owns it.
RegularMaxCornerKeep(st, cs, i) ==
  SetReuse(st, cs.pos, 0, st.cell_vertex_indices[i])

RegularMaxCorner(st, cs, grad, i, v0, v1, t) ==
  RegularMaxCornerKeep(
    RegularEmit(st, cs, i, v0, v1, t, "max_corner",
                VScale(cs.corner_positions[v1], 256), grad[v1],
                CornerBorderBits(cs.corner_positions[v1],
                                 cs.min_pos, cs.max_pos)),
    cs, i)

\* Vertex on p0 or on p1, after the lookup.
RegularEndpointCreate(st, cs, grad, i, v0, v1, t, reuse_dir) ==
  IF st.status # "ok" THEN st
  ELSE IF ~ReusePresent(reuse_dir, cs.direction_validity_mask)
          \/ st.cell_vertex_indices[i] < 0
  THEN RegularEmit(st, cs, i, v0, v1, t, "endpoint",
                   Interpolate(cs.corner_positions[v0],
                               cs.corner_positions[v1], t),
                   Interpolate(grad[v0], grad[v1], t),
                   CornerBorderBits(cs.corner_positions[IF t = 0 THEN v1
                                                        ELSE v0],
                                    cs.min_pos, cs.max_pos))
  ELSE st

\* Vertex on p0 or on p1.
RegularEndpoint(st, cs, grad, i, v0, v1, t, reuse_dir) ==
  RegularEndpointCreate(RegularLookup(st, cs, i, v0, v1, t, reuse_dir, 0),
                        cs, grad, i, v0, v1, t, reuse_dir)

\* The three branches on t.
RegularVertexAt(st, cs, grad, i, v0, v1, edge_code_high, t) ==
  IF t % 256 # 0
  THEN RegularInterior(st, cs, grad, i, v0, v1, t,
                       Shr(edge_code_high, 4) % 16, edge_code_high % 16)
  ELSE IF t = 0 /\ v1 = 7
  THEN RegularMaxCorner(st, cs, grad, i, v0, v1, t)
  ELSE RegularEndpoint(st, cs, grad, i, v0, v1, t,
                       IF t = 0 THEN BitXor(v1, 7) ELSE BitXor(v0, 7))

\* The preconditions on the edge and its samples, then t.
RegularVertexOnEdge(st, cs, grad, i, v0, v1, edge_code_high) ==
  IF \/ v1 <= v0
     \/ cs.cell_samples[v1] = cs.cell_samples[v0]
     \/ (cs.cell_samples[v1] = 0 /\ cs.cell_samples[v0] = 0)
  THEN [st EXCEPT !.status = "fail"]
  ELSE RegularVertexAt(st, cs, grad, i, v0, v1, edge_code_high,
                       InterpolationT(cs.cell_samples[v0],
                                      cs.cell_samples[v1]))

\* The edge code of a vertex, taken apart.
RegularVertexOfCode(st, cs, grad, i, rvd) ==
  RegularVertexOnEdge(st, cs, grad, i, Shr(rvd % 256, 4) % 16, rvd % 16,
                      Shr(rvd, 8) % 256)

\* One iteration of the loop over the vertices of the case, given the
\* gradients of the corners.
RegularVertex(st, cs, grad, i) ==
  RegularVertexOfCode(st, cs, grad, i,
                      LinkedRegularVertexData(st.tables, cs.case_code, i))

RECURSIVE RegularVertices(_, _, _, _, _)
RegularVertices(st, cs, grad, i, vertex_count) ==
  IF i >= vertex_count \/ st.status # "ok" THEN st
  ELSE RegularVertices(RegularVertex(st, cs, grad, i), cs, grad, i + 1,
                       vertex_count)

\* The triangles of a regular cell, appended in the order of the table.
RegularTriangles(st, cs, cell_data, triangle_count) ==
  [st EXCEPT !.indices =
     @ \o [k \in 1..(3 * triangle_count) |->
            st.cell_vertex_indices[cell_data.vertexIndex[k - 1]]],
     !.last_cell = [sweep |-> "regular", cell |-> cs.pos,
                    case_code |-> cs.case_code,
                    cell_vertex_indices |-> st.cell_vertex_indices,
                    from |-> Len(st.indices)]]

\* A cell, after its vertex loop: the triangles unless the loop has failed.
RegularCellTriangles(st, cs, cell_data) ==
  IF st.status # "ok" THEN st
  ELSE RegularTriangles(st, cs, cell_data, cell_data.geometryCounts % 16)

\* A cell with a surface in it: the vertex loop and the triangles.
RegularCellMesh(st, cs, grad, cell_data) ==
  RegularCellTriangles(
    RegularVertices([st EXCEPT !.cell_vertex_indices = [k \in 0..11 |-> -1]],
                    cs, grad, 0, Shr(cell_data.geometryCounts, 4) % 16),
    cs, cell_data)

\* A cell, after entry 0 of its reuse cell has been reset.
RegularCellBody(st, vb, cs) ==
  IF cs.case_code = 0 \/ cs.case_code = 255 THEN st
  ELSE RegularCellMesh(st, cs,
                       [i \in 0..7 |-> Gradient(vb, cs.corner_positions[i])],
                       get_regular_cell_data(cs.case_code))

\* A cell that leaves entry 0 of its reuse cell as it finds it.
RegularCellNoReset(st, vb, pos) ==
  IF ReuseCrash(st, pos) THEN [st EXCEPT !.status = "crash"]
  ELSE RegularCellBody(st, vb, RegularCellContext(vb, pos))

\* The body of the loops of build_internal for the cell at pos.
RegularCell(st, vb, pos) ==
  IF ReuseCrash(st, pos) THEN [st EXCEPT !.status = "crash"]
  ELSE RegularCellBody(SetReuse(st, pos, 0, -1), vb,
                       RegularCellContext(vb, pos))

\* The cell the regular sweep visits after pos (x innermost, z outermost),
\* or <<>> after the last one.
RegularNext(pos, block_size) ==
  LET max_pos == MaxPos(block_size)
  IN IF pos[1] + 1 < max_pos[1] THEN <<pos[1] + 1, pos[2], pos[3]>>
     ELSE IF pos[2] + 1 < max_pos[2] THEN <<MinPos[1], pos[2] + 1, pos[3]>>
     ELSE IF pos[3] + 1 < max_pos[3] THEN <<MinPos[1], MinPos[2], pos[3] + 1>>
     ELSE <<>>

\* Whether the loops of build_internal visit any cell.
RegularHasCells(block_size) ==
  \A i \in 1..3 : MinPos[i] < MaxPos(block_size)[i]

\* -------------------------------------------------------- build_transition
\* Face space to block space with the positive faces not mirrored.
face_to_block_unmirrored(x, y, z, dir, bs) ==
  IF dir = SIDE_NEGATIVE_X THEN <<z, x, y>>
  ELSE IF dir = SIDE_POSITIVE_X THEN <<z, y, x>>
  ELSE IF dir = SIDE_NEGATIVE_Y THEN <<y, z, x>>
  ELSE IF dir = SIDE_POSITIVE_Y THEN <<x, z, y>>
  ELSE IF dir = SIDE_NEGATIVE_Z THEN <<x, y, z>>
  ELSE <<y, x, z>>

\* Face space to block space.
face_to_block(x, y, z, dir, bs) ==
  IF dir = SIDE_NEGATIVE_X THEN <<z, x, y>>
  ELSE IF dir = SIDE_POSITIVE_X THEN <<bs[1] - 1 - z, y, x>>
  ELSE IF dir = SIDE_NEGATIVE_Y THEN <<y, z, x>>
  ELSE IF dir = SIDE_POSITIVE_Y THEN <<x, bs[2] - 1 - z, y>>
  ELSE IF dir = SIDE_NEGATIVE_Z THEN <<x, y, z>>
  ELSE <<y, x, bs[3] - 1 - z>>

\* Face axes that are the same on the two faces across an axis.
get_face_axes_of_negative(dir) ==
  IF dir = SIDE_NEGATIVE_X \/ dir = SIDE_POSITIVE_X THEN <<1, 2>>
  ELSE IF dir = SIDE_NEGATIVE_Y \/ dir = SIDE_POSITIVE_Y THEN <<2, 0>>
  ELSE <<0, 1>>

\* <<ax, ay>>: the block axes (0, 1, 2) of the two face axes.
get_face_axes(dir) ==
  IF dir = SIDE_NEGATIVE_X THEN <<1, 2>>
  ELSE IF dir = SIDE_POSITIVE_X THEN <<2, 1>>
  ELSE IF dir = SIDE_NEGATIVE_Y THEN <<2, 0>>
  ELSE IF dir = SIDE_POSITIVE_Y THEN <<0, 2>>
  ELSE IF dir = SIDE_NEGATIVE_Z THEN <<0, 1>>
  ELSE <<1, 0>>

\* Face loops that run up to max_pos, without the margin of the 3x3 kernel.
FaceBoundsToMaxPos(block_size, dir) ==
  LET axes == get_face_axes(dir)
  IN [min_fpos_x |-> Axis(MinPos, axes[1]),
      min_fpos_y |-> Axis(MinPos, axes[2]),
      max_fpos_x |-> Axis(MaxPos(block_size), axes[1]),
      max_fpos_y |-> Axis(MaxPos(block_size), axes[2])]

\* min_fpos_x, min_fpos_y, max_fpos_x, max_fpos_y of a direction.
FaceBounds(block_size, dir) ==
  LET axes == get_face_axes(dir)
  IN [min_fpos_x |-> Axis(MinPos, axes[1]),
      min_fpos_y |-> Axis(MinPos, axes[2]),
      max_fpos_x |-> Axis(MaxPos(block_size), axes[1]) - 1,
      max_fpos_y |-> Axis(MaxPos(block_size), axes[2]) - 1]

\* The step of the two face loops.
FaceStep == 2

direction_validity_mask_2d(fx, fy, fb) ==
  (IF fx > fb.min_fpos_x THEN 1 ELSE 0) + (IF fy > fb.min_fpos_y THEN 2 ELSE 0)

\* The face position of the cell a reuse direction leads to.
PrevFaceCell(fx, fy, reuse_direction) ==
  <<fx - (reuse_direction % 2), fy - ((reuse_direction \div 2) % 2)>>

\* Every edge taken for a full-resolution one.
fullres_side_edge_always(index_vertex_a, index_vertex_b) ==
  index_vertex_a < 13 \/ index_vertex_b < 13

\* bool fullres_side, for a vertex inside an edge and for one on a corner.
fullres_side_edge(index_vertex_a, index_vertex_b) ==
  index_vertex_a < 9 \/ index_vertex_b < 9

fullres_side_corner(index_vertex) == index_vertex < 9

\* const bool flip_triangles = ((cell_class & 128) != 0).
flip_triangles(cell_class) == (cell_class \div 128) % 2 # 0

\* The two orders exchanged.
TriangleOrderExchanged(flip, ti) ==
  IF flip THEN <<ti * 3 + 2, ti * 3 + 1, ti * 3>>
  ELSE <<ti * 3, ti * 3 + 1, ti * 3 + 2>>

\* The three positions of the vertex index list a triangle is read at.
TriangleOrder(flip, ti) ==
  IF flip THEN <<ti * 3, ti * 3 + 1, ti * 3 + 2>>
  ELSE <<ti * 3 + 2, ti * 3 + 1, ti * 3>>

\* Using max_pos, not the cell max pos.
transition_cell_border_mask(origin, block_size) ==
  get_border_mask(origin, MinPos, MaxPos(block_size))

\* The thirteen samples of a transition cell: nine on the face, and the
\* four of the half-resolution side at the corners of the face.
TransitionCellPositions(fx, fy, direction, block_size) ==
  [i \in 0..12 |->
     face_to_block(fx + (TransitionAlias(i) % 3),
                   fy + (TransitionAlias(i) \div 3), MIN_PADDING,
                   direction, block_size)]

TransitionCaseCode(cell_samples) ==
  sign(cell_samples[0]) + Shl(sign(cell_samples[1]), 1)
  + Shl(sign(cell_samples[2]), 2) + Shl(sign(cell_samples[5]), 3)
  + Shl(sign(cell_samples[8]), 4) + Shl(sign(cell_samples[7]), 5)
  + Shl(sign(cell_samples[6]), 6) + Shl(sign(cell_samples[3]), 7)
  + Shl(sign(cell_samples[4]), 8)

TransitionCellContextAt(vb, fx, fy, direction, cell_positions, cell_samples) ==
  [fx |-> fx, fy |-> fy, direction |-> direction,
   cell_positions |-> cell_positions,
   cell_samples |-> cell_samples,
   texture_idx |-> RawData2(vb, cell_positions[0]),
   case_code |-> TransitionCaseCode(cell_samples),
   min_pos |-> MinPos,
   max_pos |-> MaxPos(vb.size),
   direction_validity_mask |->
     direction_validity_mask_2d(fx, fy, FaceBounds(vb.size, direction)),
   cell_border_mask |->
     transition_cell_border_mask(cell_positions[0], vb.size)]

TransitionCellSamples(vb, fx, fy, direction, cell_positions) ==
  TransitionCellContextAt(vb, fx, fy, direction, cell_positions,
                          [i \in 0..12 |-> Sample(vb, cell_positions[i])])

\* The context of a transition cell: positions, samples, case code, masks.
TransitionCellContext(vb, fx, fy, direction) ==
  TransitionCellSamples(vb, fx, fy, direction,
                        TransitionCellPositions(fx, fy, direction, vb.size))

\* border_mask of a transition vertex.
TransitionBorderMask(cell_mask, fullres_side, edge_bits) ==
  IF fullres_side THEN BitOr(cell_mask, edge_bits) ELSE 0

\* Emits one vertex of a transition cell and records it as vertex i.
TransitionEmitMasked(st, cs, i, a, b, t, branch, primary, normal, border_mask) ==
  [PushExtra(emit_vertex(st, primary, normal), cs.texture_idx, border_mask)
   EXCEPT
     !.cell_vertex_indices[i] = EmitIndex(st),
     !.vlog = Append(@, [sweep |-> "transition",
                         cell |-> <<cs.fx, cs.fy, cs.direction>>,
                         origin |-> cs.cell_positions[0],
                         a |-> a, b |-> b,
                         p0 |-> cs.cell_positions[a],
                         p1 |-> cs.cell_positions[b],
                         t |-> t, branch |-> branch,
                         texture_idx |-> cs.texture_idx,
                         border_mask |-> border_mask])]

TransitionEmit(st, cs, i, a, b, t, branch, primary, gradient, fullres_side, edge_bits) ==
  TransitionEmitMasked(st, cs, i, a, b, t, branch, primary,
                       normalized_not_null(gradient),
                       TransitionBorderMask(cs.cell_border_mask, fullres_side,
                                            edge_bits))

\* Reads vertices[slot] of the reuse cell at the face position prev.
TransitionLookupAt(st, cs, i, a, b, t, prev, slot) ==
  IF Reuse2dCrash(st, prev[1], prev[2])
  THEN [st EXCEPT !.status = "crash"]
  ELSE [st EXCEPT
          !.cell_vertex_indices[i] =
             get_reuse_cell_2d(st, prev[1], prev[2])[slot + 1],
          !.rlog = Append(@, [sweep |-> "transition",
                              cell |-> <<cs.fx, cs.fy, cs.direction>>,
                              target |-> prev, slot |-> slot,
                              got |-> get_reuse_cell_2d(st, prev[1],
                                                        prev[2])[slot + 1],
                              p0 |-> cs.cell_positions[a],
                              p1 |-> cs.cell_positions[b],
                              t |-> t])]

\* Reads vertices[slot] of the preceding cell in direction reuse_direction,
\* when that cell is present.
TransitionLookup(st, cs, i, a, b, t, reuse_direction, slot) ==
  IF ReusePresent(reuse_direction, cs.direction_validity_mask)
  THEN TransitionLookupAt(st, cs, i, a, b, t,
                          PrevFaceCell(cs.fx, cs.fy, reuse_direction), slot)
  ELSE st

\* The vertex is kept in the reuse cell of the cell.
TransitionKeep(st, cs, i, slot) ==
  SetReuse2d(st, cs.fx, cs.fy, slot, st.cell_vertex_indices[i])

\* The vertex is kept when it is on a maximal edge (reuse_direction & 8).
TransitionKeepOwned(st, cs, i, reuse_direction, slot) ==
  IF OwnsVertex(reuse_direction) THEN TransitionKeep(st, cs, i, slot) ELSE st

\* Vertex in the interior of the edge, after the lookup.
TransitionInteriorCreate(st, cs, grad, i, a, b, t, reuse_direction, slot) ==
  IF st.status # "ok" THEN st
  ELSE IF ~ReusePresent(reuse_direction, cs.direction_validity_mask)
          \/ st.cell_vertex_indices[i] = -1
  THEN TransitionKeepOwned(
         TransitionEmit(st, cs, i, a, b, t, "interior",
                        Interpolate(cs.cell_positions[a],
                                    cs.cell_positions[b], t),
                        Interpolate(grad[a], grad[b], t),
                        fullres_side_edge(a, b),
                        InteriorBorderBits(cs.cell_positions[a],
                                           cs.cell_positions[b],
                                           cs.min_pos, cs.max_pos)),
         cs, i, reuse_direction, slot)
  ELSE st

\* Vertex in the interior of the edge.
TransitionInterior(st, cs, grad, i, a, b, t, reuse_direction, slot) ==
  TransitionInteriorCreate(
    TransitionLookup(st, cs, i, a, b, t, reuse_direction, slot),
    cs, grad, i, a, b, t, reuse_direction, slot)

\* Vertex exactly on an edge endpoint, after the lookup.
TransitionCornerCreate(st, cs, grad, i, a, b, t, index_vertex, reuse_direction, slot) ==
  IF st.status # "ok" THEN st
  ELSE IF ~ReusePresent(reuse_direction, cs.direction_validity_mask)
          \/ st.cell_vertex_indices[i] = -1
  THEN TransitionKeep(
         TransitionEmit(st, cs, i, a, b, t, "endpoint",
                        VScale(cs.cell_positions[index_vertex], 256),
                        grad[index_vertex],
                        fullres_side_corner(index_vertex),
                        CornerBorderBits(cs.cell_positions[index_vertex],
                                         cs.min_pos, cs.max_pos)),
         cs, i, slot)
  ELSE st

\* Vertex exactly on an edge endpoint, with the reuse data of its corner.
TransitionCornerWith(st, cs, grad, i, a, b, t, index_vertex, corner_data) ==
  TransitionCornerCreate(
    TransitionLookup(st, cs, i, a, b, t, Shr(corner_data, 4) % 16,
                     corner_data % 16),
    cs, grad, i, a, b, t, index_vertex, Shr(corner_data, 4) % 16,
    corner_data % 16)

TransitionCorner(st, cs, grad, i, a, b, t, index_vertex) ==
  TransitionCornerWith(st, cs, grad, i, a, b, t, index_vertex,
                       get_transition_corner_data(index_vertex))

\* The two branches on t.
TransitionVertexAt(st, cs, grad, i, a, b, edge_code, t) ==
  IF t % 256 # 0
  THEN TransitionInterior(st, cs, grad, i, a, b, t, Shr(edge_code, 12),
                          Shr(edge_code, 8) % 16)
  ELSE TransitionCorner(st, cs, grad, i, a, b, t, IF t = 0 THEN b ELSE a)

\* The preconditions on the samples, then t.
TransitionVertexOnEdge(st, cs, grad, i, a, b, edge_code) ==
  IF \/ cs.cell_samples[a] = cs.cell_samples[b]
     \/ (cs.cell_samples[a] = 0 /\ cs.cell_samples[b] = 0)
  THEN [st EXCEPT !.status = "fail"]
  ELSE TransitionVertexAt(st, cs, grad, i, a, b, edge_code,
                          InterpolationT(cs.cell_samples[a],
                                         cs.cell_samples[b]))

\* The edge code of a vertex, taken apart.
TransitionVertexOfCode(st, cs, grad, i, edge_code) ==
  TransitionVertexOnEdge(st, cs, grad, i, Shr(edge_code, 4) % 16,
                         edge_code % 16, edge_code)

\* One iteration of the loop over the vertices of a transition cell.
TransitionVertex(st, cs, grad, i) ==
  TransitionVertexOfCode(st, cs, grad, i,
                         LinkedTransitionVertexData(st.tables, cs.case_code,
                                                    i))

RECURSIVE TransitionVertices(_, _, _, _, _)
TransitionVertices(st, cs, grad, i, vertex_count) ==
  IF i >= vertex_count \/ st.status # "ok" THEN st
  ELSE TransitionVertices(TransitionVertex(st, cs, grad, i), cs, grad, i + 1,
                          vertex_count)

\* The triangles of a transition cell.
TransitionTriangles(st, cs, cell_data, flip) ==
  [st EXCEPT !.indices =
     @ \o [k \in 1..(3 * cell_data.triangleCount) |->
            st.cell_vertex_indices[
              cell_data.vertexIndex[
                TriangleOrder(flip, (k - 1) \div 3)[((k - 1) % 3) + 1]]]],
     !.last_cell = [sweep |-> "transition",
                    cell |-> <<cs.fx, cs.fy, cs.direction>>,
                    case_code |-> cs.case_code,
                    cell_vertex_indices |-> st.cell_vertex_indices,
                    from |-> Len(st.indices)]]

\* A cell, after its vertex loop: the triangles unless the loop has failed.
TransitionCellTriangles(st, cs, cell_data) ==
  IF st.status # "ok" THEN st
  ELSE TransitionTriangles(
         st, cs, cell_data,
         flip_triangles(get_transition_cell_class(cs.case_code)))

\* A cell with a surface in it: the vertex loop and the triangles.
TransitionCellMesh(st, cs, grad, cell_data) ==
  TransitionCellTriangles(
    TransitionVertices([st EXCEPT !.cell_vertex_indices =
                                    [k \in 0..11 |-> -1]],
                       cs, grad, 0, cell_data.vertexCount),
    cs, cell_data)

\* A cell, after entry 0 of its reuse cell has been reset.
TransitionCellBody(st, vb, cs) ==
  IF cs.case_code = 0 \/ cs.case_code = 511 THEN st
  ELSE TransitionCellMesh(
         st, cs,
         [i \in 0..12 |-> Gradient(vb, cs.cell_positions[i])],
         get_transition_cell_data(cs.case_code))

\* The body of the face loops of build_transition for the cell at (fx, fy).
TransitionCell(st, vb, fx, fy, direction) ==
  IF Reuse2dCrash(st, fx, fy) THEN [st EXCEPT !.status = "crash"]
  ELSE TransitionCellBody(SetReuse2d(st, fx, fy, 0, -1), vb,
                          TransitionCellContext(vb, fx, fy, direction))

\* A sweep that ends with its first row of face cells.
TransitionNextFirstRow(fx, fy, fb) ==
  IF fx + FaceStep < fb.max_fpos_x THEN <<fx + FaceStep, fy>> ELSE <<>>

\* The face cell visited after (fx, fy), or <<>> after the last one.
TransitionNext(fx, fy, fb) ==
  IF fx + FaceStep < fb.max_fpos_x THEN <<fx + FaceStep, fy>>
  ELSE IF fy + FaceStep < fb.max_fpos_y THEN <<fb.min_fpos_x, fy + FaceStep>>
  ELSE <<>>

TransitionHasCells(fb) ==
  fb.min_fpos_x < fb.max_fpos_x /\ fb.min_fpos_y < fb.max_fpos_y

\* ------------------------------------------------------------------ inputs
\* Block sizes, padding included.
Sizes == {<<5, 5, 5>>, <<7, 5, 5>>, <<9, 5, 5>>}

\* Raw background values: 1 is air (signed 126), 254 solid (signed -127).
BgVals == {1, 254}

\* Raw values of the voxels that differ from the background: 127 is the
\* signed sample 0, the other one has the sign opposite to the background.
SpecialVals(bg) == {127, 255 - bg}

\* The voxels that may differ from the background: on faces of the sweep
\* region and inside it, with neighbours along the axes, at the middle of a
\* transition cell side and at a transition cell corner.
WindowBase ==
  {<<1, 2, 2>>, <<3, 2, 2>>, <<4, 2, 2>>, <<6, 2, 2>>,
   <<3, 3, 2>>, <<3, 2, 1>>, <<3, 3, 1>>}

Window(size) ==
  {p \in WindowBase : \A i \in 1..3 : p[i] <= size[i] - MAX_PADDING}

TexSeeds == {5}

SpecialMaps(size, bg) ==
  UNION {[ps -> SpecialVals(bg)] :
           ps \in {q \in SUBSET Window(size) : Cardinality(q) <= MaxSpecial}}

Blocks ==
  UNION {
    {[size |-> size, uniform |-> FALSE, bg |-> bg, sp |-> sp, tex |-> tex] :
       sp \in SpecialMaps(size, bg), tex \in TexSeeds}
    \cup
    {[size |-> size, uniform |-> TRUE, bg |-> bg, sp |-> <<>>, tex |-> tex] :
       tex \in TexSeeds}
    : size \in Sizes, bg \in BgVals}

\* ----------------------------------------------------------- state machine
VARIABLES
  voxels,               \* the block handed to the mesher
  output_vertices,      \* _output_vertices
  output_normals,       \* _output_normals
  output_extra,         \* _output_extra
  output_indices,       \* _output_indices
  cache,                \* _cache: two decks of reuse cells
  cache_2d,             \* _cache_2d: two rows of transition reuse cells
  block_size,           \* _block_size
  vlog,                 \* history: who emitted each vertex of the buffer
  rlog,                 \* history: the cache lookups of the running sweep
  last_cell,            \* history: the last cell that appended triangles
  earlier,              \* history: the sizes of the blocks of earlier calls
  tables,               \* the case tables linked in: "sound", or "faulty"
                        \* with entries that break a vertex precondition
  pc,                   \* "idle", "regular", "transition" or "crashed"
  mode,                 \* the last call on the block at hand: "build",
                        \* "mesh", or "none" before the first one
  lod,                  \* input.lod of the last build, 0 after another call
  dir,                  \* direction of the running transition sweep
  pos,                  \* cell (regular) or face cell the sweep is at
  surfaces,             \* output.surfaces, when the last call is a build
  transition_surfaces,  \* output.transition_surfaces of that build
  mesh                  \* the arrays build_transition_mesh has returned,
                        \* when it is the last call

vars ==
  <<voxels, output_vertices, output_normals, output_extra, output_indices,
    cache, cache_2d, block_size, vlog, rlog, last_cell, earlier, tables, pc,
    mode, lod, dir, pos, surfaces, transition_surfaces, mesh>>

NoTransitionSurfaces == [d \in 0..(SIDE_COUNT - 1) |-> <<>>]

\* The mesher as a record, and back.
St ==
  [vertices |-> output_vertices, normals |-> output_normals,
   extra |-> output_extra, indices |-> output_indices,
   cache |-> cache, cache_2d |-> cache_2d, block_size |-> block_size,
   vlog |-> vlog, rlog |-> rlog, last_cell |-> last_cell, status |-> "ok",
   tables |-> tables,
   cell_vertex_indices |-> [k \in 0..11 |-> -1]]

Store(st) ==
  /\ output_vertices' = st.vertices
  /\ output_normals' = st.normals
  /\ output_extra' = st.extra
  /\ output_indices' = st.indices
  /\ cache' = st.cache
  /\ cache_2d' = st.cache_2d
  /\ block_size' = st.block_size
  /\ vlog' = st.vlog
  /\ rlog' = st.rlog
  /\ last_cell' = st.last_cell

\* The members of a mesher after construction, and no call made yet.
InitMesher ==
  /\ output_vertices = <<>>
  /\ output_normals = <<>>
  /\ output_extra = <<>>
  /\ output_indices = <<>>
  /\ cache = [j \in 0..1 |-> <<>>]
  /\ cache_2d = [j \in 0..1 |-> <<>>]
  /\ block_size = <<0, 0, 0>>
  /\ vlog = <<>>
  /\ rlog = <<>>
  /\ last_cell = NoCell
  /\ earlier = {}
  /\ pc = "idle"
  /\ mode = "none"
  /\ lod = 0
  /\ dir = 0
  /\ pos = <<>>
  /\ surfaces = <<>>
  /\ transition_surfaces = NoTransitionSurfaces
  /\ mesh = <<>>

Init == voxels \in Blocks /\ tables = "sound" /\ InitMesher

\* Where a call stands after a step: the mesher, the control state and the
\* surfaces produced so far.
Ctl(st, p, d, at, tsurf) ==
  [st |-> st, pc |-> p, dir |-> d, pos |-> at, tsurf |-> tsurf]

\* The head of build_transition: early returns, cache reset.  The result is
\* the mesher and whether the face loops have a cell to visit.
TransitionHead(st, vb, direction) ==
  IF is_uniform(vb) THEN [st |-> st, sweep |-> FALSE]
  ELSE IF vb.size[1] < 3 \/ vb.size[2] < 3 \/ vb.size[3] < 3
  THEN [st |-> st, sweep |-> FALSE]
  ELSE [st |-> [reset_reuse_cells_2d(st, vb.size) EXCEPT !.rlog = <<>>],
        sweep |-> TransitionHasCells(FaceBounds(vb.size, direction))]

\* build: the loop over the directions from d on, up to the first direction
\* whose sweep has a cell to visit.
RECURSIVE EnterTransitions(_, _, _, _)
EnterTransitions(st, vb, d, tsurf) ==
  IF d >= SIDE_COUNT THEN Ctl(st, "idle", 0, <<>>, tsurf)
  ELSE
    LET h == TransitionHead(clear_output(st), vb, d)
        fb == FaceBounds(vb.size, d)
    IN IF h.sweep
       THEN Ctl(h.st, "transition", d, <<fb.min_fpos_x, fb.min_fpos_y>>, tsurf)
       ELSE EnterTransitions(h.st, vb, d + 1, tsurf)

\* build, after build_internal has returned: an empty mesh ends the call,
\* otherwise the regular buffers are scaled and the directions follow.
RegularScaled(st, l) ==
  IF l > 0 THEN scale_output(st, Pow2(l)) ELSE st

RegularSurfaces(st, l) ==
  IF Len(st.vertices) = 0 THEN <<>>
  ELSE <<fill_surface_arrays(RegularScaled(st, l))>>

AfterRegular(st, vb, l) ==
  IF Len(st.vertices) = 0
  THEN Ctl(st, "idle", 0, <<>>, NoTransitionSurfaces)
  ELSE EnterTransitions(RegularScaled(st, l), vb, 0, NoTransitionSurfaces)

\* build, after build_transition(d) has returned.
AfterTransition(st, vb, l, d, tsurf) ==
  IF Len(st.vertices) = 0 THEN EnterTransitions(st, vb, d + 1, tsurf)
  ELSE
    LET scaled == IF l > 0 THEN scale_output(st, Pow2(l)) ELSE st
    IN EnterTransitions(scaled, vb, d + 1,
                        [tsurf EXCEPT ![d] =
                           Append(@, fill_surface_arrays(scaled))])

\* The head of build_internal: the uniform early return and the cache reset.
BuildInternalHead(st, vb) ==
  IF is_uniform(vb) THEN [st |-> st, sweep |-> FALSE]
  ELSE [st |-> [reset_reuse_cells(st, vb.size) EXCEPT !.rlog = <<>>],
        sweep |-> RegularHasCells(vb.size)]

Apply(c) ==
  /\ Store(c.st)
  /\ pc' = c.pc
  /\ dir' = c.dir
  /\ pos' = c.pos
  /\ transition_surfaces' = c.tsurf

\* VoxelMesherTransvoxel::build, up to the first cell of a sweep.
Build(l) ==
  /\ pc = "idle"
  /\ LET h == BuildInternalHead(clear_output(St), voxels)
     IN IF h.sweep
        THEN /\ Apply(Ctl(h.st, "regular", 0, MinPos, NoTransitionSurfaces))
             /\ surfaces' = <<>>
        ELSE /\ Apply(AfterRegular(h.st, voxels, l))
             /\ surfaces' = RegularSurfaces(h.st, l)
  /\ mode' = "build"
  /\ lod' = l
  /\ mesh' = <<>>
  /\ UNCHANGED <<voxels, earlier, tables>>

\* A sweep that goes on to the next cell after a failed precondition.
RegularStepToNextCell(s, nxt) ==
  IF s.status = "crash"
  THEN /\ Store(s)
       /\ pc' = "crashed"
       /\ UNCHANGED <<dir, pos, surfaces, transition_surfaces>>
  ELSE IF nxt # <<>>
  THEN /\ Store(s)
       /\ pos' = nxt
       /\ UNCHANGED <<pc, dir, surfaces, transition_surfaces>>
  ELSE /\ Apply(AfterRegular(s, voxels, lod))
       /\ surfaces' = RegularSurfaces(s, lod)

\* One cell of the loops of build_internal, and what follows the last one.
RegularStepTo(s, nxt) ==
  IF s.status = "crash"
  THEN /\ Store(s)
       /\ pc' = "crashed"
       /\ UNCHANGED <<dir, pos, surfaces, transition_surfaces>>
  ELSE IF s.status = "ok" /\ nxt # <<>>
  THEN /\ Store(s)
       /\ pos' = nxt
       /\ UNCHANGED <<pc, dir, surfaces, transition_surfaces>>
  ELSE /\ Apply(AfterRegular(s, voxels, lod))
       /\ surfaces' = RegularSurfaces(s, lod)

RegularStep ==
  /\ pc = "regular"
  /\ RegularStepTo(RegularCell(St, voxels, pos), RegularNext(pos, voxels.size))
  /\ UNCHANGED <<voxels, earlier, tables, mode, lod, mesh>>

\* VoxelMesherTransvoxel::build_transition_mesh, up to the first face cell.
BuildTransitionMesh(d) ==
  /\ pc = "idle"
  /\ LET h == TransitionHead(clear_output(St), voxels, d)
         fb == FaceBounds(voxels.size, d)
     IN /\ Store(h.st)
        /\ IF h.sweep
           THEN /\ pc' = "transition"
                /\ pos' = <<fb.min_fpos_x, fb.min_fpos_y>>
           ELSE /\ pc' = "idle"
                /\ pos' = <<>>
  /\ dir' = d
  /\ mode' = "mesh"
  /\ mesh' = <<>>
  /\ lod' = 0
  /\ surfaces' = <<>>
  /\ transition_surfaces' = NoTransitionSurfaces
  /\ UNCHANGED <<voxels, earlier, tables>>

\* One cell of the face loops of build_transition, and what follows the
\* last one in build and in build_transition_mesh.
TransitionStepTo(s, nxt) ==
  IF s.status = "crash"
  THEN /\ Store(s)
       /\ pc' = "crashed"
       /\ UNCHANGED <<dir, pos, transition_surfaces, mesh>>
  ELSE IF s.status = "ok" /\ nxt # <<>>
  THEN /\ Store(s)
       /\ pos' = nxt
       /\ UNCHANGED <<pc, dir, transition_surfaces, mesh>>
  ELSE IF mode = "build"
  THEN /\ Apply(AfterTransition(s, voxels, lod, dir, transition_surfaces))
       /\ UNCHANGED mesh
  ELSE /\ Store(s)
       /\ pc' = "idle"
       /\ pos' = <<>>
       /\ mesh' = IF Len(s.vertices) = 0 THEN <<>>
                  ELSE <<fill_surface_arrays(s)>>
       /\ UNCHANGED <<dir, transition_surfaces>>

TransitionStep ==
  /\ pc = "transition"
  /\ TransitionStepTo(TransitionCell(St, voxels, pos[1], pos[2], dir),
                      TransitionNext(pos[1], pos[2],
                                     FaceBounds(voxels.size, dir)))
  /\ UNCHANGED <<voxels, earlier, tables, mode, lod, surfaces>>

\* The directions build_transition_mesh is called with: a negative face
\* and a positive one.  build goes through the six of them.
MeshDirections == {SIDE_NEGATIVE_X, SIDE_POSITIVE_Z}

Next ==
  \/ \E l \in 0..MaxLod : Build(l)
  \/ \E d \in MeshDirections : BuildTransitionMesh(d)
  \/ RegularStep
  \/ TransitionStep

Spec == Init /\ [][Next]_vars

\* The calls of build alone: the regular sweep and the six transition
\* sweeps that follow it, with no call of build_transition_mesh.
NextBuild ==
  \/ \E l \in 0..MaxLod : Build(l)
  \/ RegularStep
  \/ TransitionStep

SpecBuild == Init /\ [][NextBuild]_vars

\* ------------------------------------------- one mesher, several blocks
\* The blocks a mesher is handed one after the other: the three sizes, each
\* uniform (air or solid), or solid with no surface, or solid with one voxel
\* on the -X face of the sweep region that is air or at the isolevel.
SharedBlocks ==
  {b \in Blocks :
     b.uniform \/ (b.bg = 254 /\ DOMAIN b.sp \subseteq {<<1, 2, 2>>})}

\* Blocks four cells high, so that two cells of a sweep share a reuse cell
\* (the decks alternate with z, the rows of the transition cache hold every
\* face row): solid, with one voxel at the isolevel, on the -X face or at
\* the max corner of the first cell.
TallBlocks ==
  {[size |-> <<5, 5, 7>>, uniform |-> FALSE, bg |-> 254,
    sp |-> [p \in {q} |-> 127], tex |-> tex] :
     q \in {<<1, 2, 2>>, <<2, 2, 2>>}, tex \in TexSeeds}

\* The caller hands the idle mesher another block; what the last call has
\* returned is no longer the result of a call on the block at hand.
Rebind ==
  /\ pc = "idle"
  /\ voxels' \in (SharedBlocks \cup TallBlocks) \ {voxels}
  /\ mode' = "none"
  /\ earlier' = IF mode = "none" THEN earlier ELSE earlier \cup {voxels.size}
  /\ UNCHANGED <<output_vertices, output_normals, output_extra,
                 output_indices, cache, cache_2d, block_size, vlog, rlog,
                 last_cell, tables, pc, lod, dir, pos, surfaces,
                 transition_surfaces, mesh>>

InitShared ==
  voxels \in SharedBlocks \cup TallBlocks /\ tables = "sound" /\ InitMesher

NextShared == Next \/ Rebind

SpecShared == InitShared /\ [][NextShared]_vars

\* --------------------------------------------------------- faulty tables
\* The program linked with tables that have a bad entry, on blocks with at
\* most one voxel off the background.
FaultBlocks == {b \in Blocks : Cardinality(DOMAIN b.sp) <= 1}

InitFaulty == voxels \in FaultBlocks /\ tables = "faulty" /\ InitMesher

SpecFaulty == InitFaulty /\ [][Next]_vars

\* ------------------------------------------------- blocks of other sizes
\* Blocks whose axes differ in length and in parity, each axis at least 3:
\* with and without a cell to sweep, longer on y than on x, and with an odd
\* number of cells on an axis.
OtherSizes ==
  {<<3, 3, 3>>, <<4, 4, 4>>, <<5, 5, 5>>, <<6, 5, 5>>, <<4, 7, 4>>,
   <<3, 7, 5>>}

\* Uniform, or air or solid with at most one voxel off the background, at
\* the origin of the sweep region.
SizedBlocks ==
  UNION {
    {[size |-> size, uniform |-> FALSE, bg |-> bg, sp |-> sp, tex |-> tex] :
       sp \in {<<>>} \cup [{MinPos} -> SpecialVals(bg)], tex \in TexSeeds}
    \cup
    {[size |-> size, uniform |-> TRUE, bg |-> bg, sp |-> <<>>, tex |-> tex] :
       tex \in TexSeeds}
    : size \in OtherSizes, bg \in BgVals}

\* Blocks of equal x and y length, four cells high, so that a cell shares its
\* reuse cell with the cell two layers below: air or solid, with up to
\* MaxSpecial voxels on the edge x = 2, y = 2 that are at the isolevel or on
\* the other side of it.
TallWindow == {<<2, 2, 2>>, <<2, 2, 3>>, <<2, 2, 4>>}

SquareTallBlocks ==
  UNION {
    {[size |-> <<5, 5, 7>>, uniform |-> FALSE, bg |-> bg, sp |-> sp,
      tex |-> tex] :
       tex \in TexSeeds,
       sp \in UNION {[ps -> SpecialVals(bg)] :
                       ps \in {q \in SUBSET TallWindow :
                                 Cardinality(q) <= MaxSpecial}}}
    : bg \in BgVals}

InitSizes == voxels \in SizedBlocks \cup SquareTallBlocks /\ tables = "sound" /\ InitMesher

SpecSizes == InitSizes /\ [][Next]_vars

\* ------------------------------------------------ blocks of every sample
\* 5x5x5 blocks, air or solid, whose voxel at (2,2,1), a corner of the four
\* cells of the first layer and the middle sample of the -Z face cell, takes
\* every raw value.
SampleBlocks ==
  {[size |-> <<5, 5, 5>>, uniform |-> FALSE, bg |-> bg,
    sp |-> [p \in {<<2, 2, 1>>} |-> v], tex |-> tex] :
     bg \in BgVals, v \in 0..255, tex \in TexSeeds}

InitSamples == voxels \in SampleBlocks /\ tables = "sound" /\ InitMesher

\* build at lod 0 and its steps.
NextSamples ==
  \/ Build(0)
  \/ RegularStep
  \/ TransitionStep

SpecSamples == InitSamples /\ [][NextSamples]_vars

\* ------------------------------------------------- the calls, run to the end
\* The same calls as functions of the mesher and of the block, from their
\* first statement to their return.
NewMesher ==
  [vertices |-> <<>>, normals |-> <<>>, extra |-> <<>>, indices |-> <<>>,
   cache |-> [j \in 0..1 |-> <<>>], cache_2d |-> [j \in 0..1 |-> <<>>],
   block_size |-> <<0, 0, 0>>, vlog |-> <<>>, rlog |-> <<>>,
   last_cell |-> NoCell, status |-> "ok", tables |-> "sound",
   cell_vertex_indices |-> [k \in 0..11 |-> -1]]

\* The loops of build_internal from the cell at pos on: they end after the
\* last cell, or at the cell where an ERR_FAIL_COND or a CRASH_COND fires.
RECURSIVE RegularSweepFrom(_, _, _)
RegularSweepOn(s, vb, nxt) ==
  IF s.status # "ok" \/ nxt = <<>> THEN s ELSE RegularSweepFrom(s, vb, nxt)

RegularSweepFrom(st, vb, at) ==
  RegularSweepOn(RegularCell(st, vb, at), vb, RegularNext(at, vb.size))

RegularSweepAfter(h, vb) ==
  IF h.sweep THEN RegularSweepFrom(h.st, vb, MinPos) ELSE h.st

build_internal(st, vb) == RegularSweepAfter(BuildInternalHead(st, vb), vb)

\* The face loops of build_transition from the face cell at <<fx, fy>> on.
RECURSIVE TransitionSweepFrom(_, _, _, _, _)
TransitionSweepOn(s, vb, direction, fb, nxt) ==
  IF s.status # "ok" \/ nxt = <<>> THEN s
  ELSE TransitionSweepFrom(s, vb, direction, fb, nxt)

TransitionSweepFrom(st, vb, direction, fb, at) ==
  TransitionSweepOn(TransitionCell(st, vb, at[1], at[2], direction), vb,
                    direction, fb, TransitionNext(at[1], at[2], fb))

TransitionSweepAfter(h, vb, direction, fb) ==
  IF h.sweep
  THEN TransitionSweepFrom(h.st, vb, direction, fb,
                           <<fb.min_fpos_x, fb.min_fpos_y>>)
  ELSE h.st

build_transition(st, vb, direction) ==
  TransitionSweepAfter(TransitionHead(st, vb, direction), vb, direction,
                       FaceBounds(vb.size, direction))

\* What a call has produced: the mesher, the surfaces, and whether a
\* CRASH_COND has ended the process.
Returned(st, surf, tsurf) ==
  [st |-> [st EXCEPT !.status = "ok"], surfaces |-> surf,
   transition_surfaces |-> tsurf, crashed |-> st.status = "crash"]

\* build, the loop over the directions from d on.
RECURSIVE BuildDirections(_, _, _, _, _, _)
BuildDirectionDone(t, vb, l, d, surf, tsurf) ==
  IF t.status = "crash" THEN Returned(t, surf, tsurf)
  ELSE IF Len(t.vertices) = 0
  THEN BuildDirections([t EXCEPT !.status = "ok"], vb, l, d + 1, surf, tsurf)
  ELSE BuildDirections(
         RegularScaled([t EXCEPT !.status = "ok"], l), vb, l, d + 1, surf,
         [tsurf EXCEPT ![d] = Append(@, fill_surface_arrays(
                                          RegularScaled(t, l)))])

BuildDirections(st, vb, l, d, surf, tsurf) ==
  IF d >= SIDE_COUNT THEN Returned(st, surf, tsurf)
  ELSE BuildDirectionDone(build_transition(clear_output(st), vb, d), vb, l,
                          d, surf, tsurf)

BuildRegularDone(r, vb, l) ==
  IF r.status = "crash" \/ Len(r.vertices) = 0
  THEN Returned(r, <<>>, NoTransitionSurfaces)
  ELSE BuildDirections(RegularScaled([r EXCEPT !.status = "ok"], l), vb, l, 0,
                       RegularSurfaces(r, l), NoTransitionSurfaces)

build(st, vb, l) == BuildRegularDone(build_internal(clear_output(st), vb), vb, l)


\* ================================================================== claims
\* The arrays handed back by build and build_transition_mesh.
ReturnedArrays ==
  {surfaces[k] : k \in DOMAIN surfaces}
  \cup UNION {{transition_surfaces[d][k] : k \in DOMAIN transition_surfaces[d]}
               : d \in 0..(SIDE_COUNT - 1)}
  \cup {mesh[k] : k \in DOMAIN mesh}

\* The regular sweep of the last build has run to its end and has emitted.
RegularDone == mode = "build" /\ pc # "regular" /\ surfaces # <<>>

\* An edge is its lower endpoint p0 and its axis (1, 2, 3); p1 is one step
\* further on that axis.
UnitVec(axis) == [i \in 1..3 |-> IF i = axis THEN 1 ELSE 0]

EdgeP1(p0, axis) == VAdd(p0, UnitVec(axis))

EdgeAxis(p0, p1) == CHOOSE axis \in 1..3 : p1 = EdgeP1(p0, axis)

\* The four cells an edge belongs to.
CellsOfEdge(p0, axis) ==
  {c \in {VAdd(p0, <<dx, dy, dz>>) : dx \in {-1, 0}, dy \in {-1, 0},
                                     dz \in {-1, 0}} : c[axis] = p0[axis]}

\* The one of them with the lowest coordinates: the edge is one of its edges
\* 3-7, 5-7, 6-7, the ones a cell stores in its reuse cell.
EdgeOwner(p0, axis) == VAdd(VAdd(p0, <<-1, -1, -1>>), UnitVec(axis))

InSweep(c, size) ==
  \A i \in 1..3 : MinPos[i] <= c[i] /\ c[i] < MaxPos(size)[i]

StrictlyInside(c, size) ==
  \A i \in 1..3 : MinPos[i] < c[i] /\ c[i] < MaxPos(size)[i]

Crossed(vb, p0, axis) ==
  sign(Sample(vb, p0)) # sign(Sample(vb, EdgeP1(p0, axis)))

EdgeT(vb, p0, axis) ==
  InterpolationT(Sample(vb, p0), Sample(vb, EdgeP1(p0, axis)))

\* Where the surface crosses an edge, as an output position at lod l.
CrossingPoint(vb, p0, axis, l) ==
  VScale(VAdd(VAdd(VScale(p0, EdgeT(vb, p0, axis)),
                   VScale(EdgeP1(p0, axis), 256 - EdgeT(vb, p0, axis))),
              VScale(<<1, 1, 1>>, -256 * MIN_PADDING)),
         Pow2(l))

\* The vertices of the regular surface that lie on an edge, at its crossing.
EmittedOn(p0, axis) ==
  {k \in DOMAIN surfaces[1].vertices :
     surfaces[1].vertices[k] = CrossingPoint(voxels, p0, axis, lod)}

\* C1: after build_internal or build_transition the index buffer is a
\* triangle list: its length is a multiple of 3 and every entry is the
\* index of a vertex of the current output (none is -1, none is left
\* from an earlier build).  The same holds of the arrays handed back.
WellFormedTriangleList(indices, vertex_count) ==
  /\ Len(indices) % 3 = 0
  /\ \A k \in DOMAIN indices : indices[k] >= 0 /\ indices[k] < vertex_count

C1_IndexBufferWellFormed ==
  /\ WellFormedTriangleList(output_indices, Len(output_vertices))
  /\ \A arrays \in ReturnedArrays :
       WellFormedTriangleList(arrays.indices, Len(arrays.vertices))

\* A second call is running on a mesher that has built before, it has
\* appended triangles, and one of their vertices came from the reuse cache.
C1_Witness ==
  /\ cache_2d[0] # <<>>
  /\ pc = "regular"
  /\ Len(output_indices) >= 3
  /\ \E k \in DOMAIN rlog : rlog[k].got >= 0

\* C2 as stated: over the regular sweep no edge shared by two cells of the
\* sweep region gets more than one vertex.
C2_Original_OneVertexPerSharedEdge ==
  \A i, j \in DOMAIN vlog :
    (/\ i # j
     /\ vlog[i].sweep = "regular" /\ vlog[j].sweep = "regular"
     /\ vlog[i].p0 = vlog[j].p0 /\ vlog[i].p1 = vlog[j].p1)
    => vlog[i].cell = vlog[j].cell

\* C2, amended: for an edge crossed strictly inside (low byte of t not 0)
\* whose owning cell - the lowest of the cells it belongs to - is in the
\* sweep region, only the owning cell emits a vertex; every other cell of
\* the edge looks the owning cell up in the reuse cache and finds the index.
C2_OwnedEdgeEmittedOnce ==
  /\ \A k \in DOMAIN vlog :
       (/\ vlog[k].sweep = "regular"
        /\ vlog[k].branch = "interior"
        /\ InSweep(EdgeOwner(vlog[k].p0, EdgeAxis(vlog[k].p0, vlog[k].p1)),
                   voxels.size))
       => vlog[k].cell = EdgeOwner(vlog[k].p0,
                                   EdgeAxis(vlog[k].p0, vlog[k].p1))
  /\ \A k \in DOMAIN rlog :
       (rlog[k].sweep = "regular" /\ rlog[k].t % 256 # 0)
       => /\ rlog[k].got >= 0
          /\ rlog[k].target = EdgeOwner(rlog[k].p0,
                                        EdgeAxis(rlog[k].p0, rlog[k].p1))

\* A cell has found in the cache the vertex of an edge crossed strictly
\* inside, emitted by the owner of the edge.
C2_Witness ==
  \E k \in DOMAIN rlog :
    /\ rlog[k].sweep = "regular"
    /\ rlog[k].t % 256 # 0
    /\ rlog[k].got >= 0
    /\ rlog[k].cell # rlog[k].target

\* The edges two cells strictly inside the sweep region share: the cells of
\* an edge have its coordinate on its axis and, on each other axis, the
\* coordinate of p0 or one less.
InsideChoices(p0, o, size) ==
  Cardinality({v \in {p0[o] - 1, p0[o]} :
                 MinPos[o] < v /\ v < MaxPos(size)[o]})

SharedInsideEdges(size) ==
  {e \in {<<<<x, y, z>>, axis>> : x \in 2..(size[1] - 2),
                                  y \in 2..(size[2] - 2),
                                  z \in 2..(size[3] - 2), axis \in 1..3} :
     LET p0 == e[1]
         axis == e[2]
         o1 == (axis % 3) + 1
         o2 == ((axis + 1) % 3) + 1
     IN /\ MinPos[axis] < p0[axis] /\ p0[axis] < MaxPos(size)[axis]
        /\ InsideChoices(p0, o1, size) * InsideChoices(p0, o2, size) >= 2}

\* The vertices of the regular surface that a cell has emitted for an edge.
GeneratedOn(p0, axis) ==
  {k \in DOMAIN surfaces[1].vlog :
     surfaces[1].vlog[k].p0 = p0 /\ surfaces[1].vlog[k].p1 = EdgeP1(p0, axis)}

\* C3 as stated: an edge crossed by the surface and shared by two cells
\* strictly inside the sweep region has exactly one vertex at the end of the
\* sweep, wherever on the edge the crossing falls: the surface has a vertex
\* at the crossing, and the cells of the edge have not emitted two for it.
C3_Original_ExactlyOneOnSharedEdge ==
  RegularDone =>
    \A e \in SharedInsideEdges(voxels.size) :
      Crossed(voxels, e[1], e[2])
      => /\ EmittedOn(e[1], e[2]) # {}
         /\ Cardinality(GeneratedOn(e[1], e[2])) <= 1

\* C3, amended: such an edge has exactly one vertex at the end of the sweep
\* when the crossing falls strictly inside the edge (low byte of t not 0).
C3_ExactlyOneInsideSharedEdge ==
  RegularDone =>
    \A e \in SharedInsideEdges(voxels.size) :
      (Crossed(voxels, e[1], e[2]) /\ EdgeT(voxels, e[1], e[2]) % 256 # 0)
      => Cardinality(EmittedOn(e[1], e[2])) = 1

\* The sweep is over on a block with such an edge crossed strictly inside.
C3_Witness ==
  /\ RegularDone
  /\ \E e \in SharedInsideEdges(voxels.size) :
       /\ Crossed(voxels, e[1], e[2])
       /\ EdgeT(voxels, e[1], e[2]) % 256 # 0
       /\ Cardinality(EmittedOn(e[1], e[2])) = 1

\* The buffers whose vertices have a history: the running output and the
\* arrays handed back, each with the factor its positions were scaled by.
LiveArrays ==
  [vertices |-> output_vertices, normals |-> output_normals,
   extra |-> output_extra, indices |-> output_indices, vlog |-> vlog]

BuildArrays ==
  {surfaces[k] : k \in DOMAIN surfaces}
  \cup UNION {{transition_surfaces[d][k] : k \in DOMAIN transition_surfaces[d]}
               : d \in 0..(SIDE_COUNT - 1)}

\* The regular vertices under observation: those of the running regular
\* sweep (not scaled) and those of the regular surface (scaled by 2^lod).
RegularViews ==
  (IF pc = "regular" THEN {[arrays |-> LiveArrays, scale |-> 1]} ELSE {})
  \cup {[arrays |-> surfaces[k], scale |-> Pow2(lod)] : k \in DOMAIN surfaces}

\* The transition vertices under observation: the running output while it
\* holds a transition sweep, the transition surfaces and the test mesh.
TransitionViews ==
  (IF \E k \in DOMAIN vlog : vlog[k].sweep = "transition"
   THEN {LiveArrays} ELSE {})
  \cup UNION {{transition_surfaces[d][k] : k \in DOMAIN transition_surfaces[d]}
               : d \in 0..(SIDE_COUNT - 1)}
  \cup {mesh[k] : k \in DOMAIN mesh}

BorderMaskOf(arrays, k) == arrays.extra[k][4]

HasBit(mask, b) == (mask \div b) % 2 = 1

\* The border mask bit of a face direction.
FaceBit(d) ==
  IF d = SIDE_NEGATIVE_X THEN 1
  ELSE IF d = SIDE_POSITIVE_X THEN 2
  ELSE IF d = SIDE_NEGATIVE_Y THEN 4
  ELSE IF d = SIDE_POSITIVE_Y THEN 8
  ELSE IF d = SIDE_NEGATIVE_Z THEN 16
  ELSE 32

\* C4 as stated: in a transition sweep a cell does not emit a vertex on an
\* edge or corner it shares with the cell visited before it on a face axis
\* (two face steps back) when that cell has emitted it: no two vertices of
\* neighbouring cells lie at the same place on the same side of the cell.
FaceNeighbours(c1, c2) ==
  /\ c1[3] = c2[3]
  /\ \/ c2[1] = c1[1] + FaceStep /\ c2[2] = c1[2]
     \/ c2[1] = c1[1] /\ c2[2] = c1[2] + FaceStep

C4_Original_TransitionReuse ==
  \A i, j \in DOMAIN vlog :
    (/\ vlog[i].sweep = "transition" /\ vlog[j].sweep = "transition"
     /\ FaceNeighbours(vlog[i].cell, vlog[j].cell)
     /\ (vlog[i].a < 9) = (vlog[j].a < 9))
    => output_vertices[i] # output_vertices[j]

\* C5: a vertex emitted by the regular sweep whose output position has
\* coordinate 0 on an axis has the negative-face bit of that axis in its
\* border mask, and one whose coordinate is size - 3 has the positive-face
\* bit.
C5_FaceBitsOnBlockFaces ==
  \A v \in RegularViews :
    \A k \in DOMAIN v.arrays.vertices :
      \A i \in 0..(AXIS_COUNT - 1) :
        /\ v.arrays.vertices[k][i + 1] = 0
             => HasBit(BorderMaskOf(v.arrays, k), Shl(1, i * 2))
        /\ v.arrays.vertices[k][i + 1]
               = (voxels.size[i + 1] - 3) * 256 * v.scale
             => HasBit(BorderMaskOf(v.arrays, k), Shl(1, i * 2 + 1))

\* The regular surface of a build at lod 1 has a vertex on a negative face
\* and a vertex on a positive face of the block.
C5_Witness ==
  /\ RegularDone
  /\ lod = 1
  /\ \E k \in DOMAIN surfaces[1].vertices : surfaces[1].vertices[k][1] = 0
  /\ \E k \in DOMAIN surfaces[1].vertices :
       surfaces[1].vertices[k][2] = (voxels.size[2] - 3) * 256 * Pow2(lod)

\* The face membership of an edge endpoint, against min_pos and max_pos.
EndpointMask(p) == get_border_mask(p, MinPos, MaxPos(voxels.size))

\* C6 as stated: bits 6..11 of the border mask of a regular vertex are the
\* AND of the face memberships of the two endpoints of its edge, in the
\* three branches alike, and 0 when the owning cell touches no face.
C6_Original_EdgeBitsAreAnd ==
  \A v \in RegularViews :
    \A k \in DOMAIN v.arrays.vertices :
      LET e == v.arrays.vlog[k]
      IN BorderMaskOf(v.arrays, k) \div 64
           = IF cell_border_mask(e.cell, voxels.size) = 0 THEN 0
             ELSE BitAnd(EndpointMask(e.p0), EndpointMask(e.p1))

\* C6, amended: in the interior-edge branch the bits are the AND of the
\* face memberships of p0 and p1; in the max-corner and other-endpoint
\* branches they are the face membership of the endpoint the vertex lies on
\* (p1 when t = 0, p0 when t = 256); they are 0 when the owning cell touches
\* no face.
C6_EdgeBitsPerBranch ==
  \A v \in RegularViews :
    \A k \in DOMAIN v.arrays.vertices :
      LET e == v.arrays.vlog[k]
      IN BorderMaskOf(v.arrays, k) \div 64
           = IF cell_border_mask(e.cell, voxels.size) = 0 THEN 0
             ELSE IF e.branch = "interior"
             THEN BitAnd(EndpointMask(e.p0), EndpointMask(e.p1))
             ELSE EndpointMask(IF e.t = 0 THEN e.p1 ELSE e.p0)

\* A running regular sweep has emitted, in a cell on a block face, a vertex
\* on an edge endpoint that lies on a face the other endpoint is not on.
C6_Witness ==
  /\ pc = "regular"
  /\ \E k \in DOMAIN vlog :
       /\ vlog[k].branch # "interior"
       /\ EndpointMask(vlog[k].p0) # EndpointMask(vlog[k].p1)
       /\ output_extra[k][4] \div 64 # 0

\* C7: a vertex of a transition sweep has a non-zero border mask only if
\* both endpoint sample indices of its edge are below 9; a vertex of an edge
\* with an endpoint index in 9..12 has border mask 0.
C7_HalfResolutionUnmasked ==
  \A arrays \in TransitionViews :
    \A k \in DOMAIN arrays.vertices :
      LET e == arrays.vlog[k]
      IN /\ (e.a >= 9 \/ e.b >= 9) => BorderMaskOf(arrays, k) = 0
         /\ BorderMaskOf(arrays, k) # 0 => (e.a < 9 /\ e.b < 9)

\* A transition sweep has emitted a vertex of a half-resolution edge and a
\* vertex of a full-resolution edge with a non-zero mask.
C7_Witness ==
  /\ \E k \in DOMAIN vlog :
       vlog[k].sweep = "transition" /\ vlog[k].a >= 9 /\ output_extra[k][4] = 0
  /\ \E k \in DOMAIN vlog :
       vlog[k].sweep = "transition" /\ vlog[k].b < 9 /\ output_extra[k][4] # 0

\* C8: every vertex emitted by build_transition(d) has border mask 0 or a
\* border mask whose low six bits include the bit of face d.
C8_FaceBitOfDirection ==
  \A arrays \in TransitionViews :
    \A k \in DOMAIN arrays.vertices :
      \/ BorderMaskOf(arrays, k) = 0
      \/ HasBit(BorderMaskOf(arrays, k) % 64, FaceBit(arrays.vlog[k].cell[3]))

\* build has stored a transition surface for a positive face with a masked
\* vertex, on a block that is not a cube.
C8_Witness ==
  /\ voxels.size[1] # voxels.size[2]
  /\ \E arrays \in BuildArrays :
       \E k \in DOMAIN arrays.vertices :
         /\ arrays.vlog[k].sweep = "transition"
         /\ arrays.vlog[k].cell[3] = SIDE_POSITIVE_Y
         /\ BorderMaskOf(arrays, k) # 0

\* The indices a cell appended for its triangle ti, and the vertex indices
\* the class data lists for it.
AppendedTriangle(ti) ==
  [n \in 1..3 |-> output_indices[last_cell.from + 3 * ti + n]]

ListedTriangle(ti) ==
  LET cell_data == get_transition_cell_data(last_cell.case_code)
  IN [n \in 1..3 |->
        last_cell.cell_vertex_indices[cell_data.vertexIndex[3 * ti + n - 1]]]

Reversed(tri) == <<tri[3], tri[2], tri[1]>>

LastCellFlip ==
  flip_triangles(get_transition_cell_class(last_cell.case_code))

LastCellTriangles ==
  0..(get_transition_cell_data(last_cell.case_code).triangleCount - 1)

\* C9 as stated: a transition cell appends the three indices of each
\* triangle in the order of the class data when bit 7 of the class is
\* clear, and in the reversed order when it is set.
C9_Original_FlipReverses ==
  last_cell.sweep = "transition" =>
    \A ti \in LastCellTriangles :
      AppendedTriangle(ti) = IF LastCellFlip THEN Reversed(ListedTriangle(ti))
                             ELSE ListedTriangle(ti)

\* C9, amended: the three indices are appended in the order of the class
\* data when bit 7 of the class is set, and in the reversed order when it is
\* clear.
C9_FlipKeepsListedOrder ==
  last_cell.sweep = "transition" =>
    \A ti \in LastCellTriangles :
      AppendedTriangle(ti) = IF LastCellFlip THEN ListedTriangle(ti)
                             ELSE Reversed(ListedTriangle(ti))

\* A transition cell whose class has bit 7 set has appended triangles.
C9_Witness ==
  /\ last_cell.sweep = "transition"
  /\ LastCellFlip
  /\ Len(output_indices) >= last_cell.from + 3

\* C10: in every surface returned by build the extra attribute of a vertex
\* is (0, texture_idx, 0, border_mask), texture_idx being the raw value of
\* the secondary channel at the origin of the cell that emitted the vertex.
C10_ExtraIsTextureAndMask ==
  \A arrays \in BuildArrays :
    \A k \in DOMAIN arrays.vertices :
      arrays.extra[k] = <<0, RawData2(voxels, arrays.vlog[k].origin), 0,
                          arrays.vlog[k].border_mask>>

\* The last call on the block at hand is a build, and it has returned.
BuildReturned == pc = "idle" /\ mode = "build"

\* The arrays a are the arrays b with the positions multiplied by factor:
\* as many vertices in the same order, the same normals, the same indices.
ScaledArrays(a, b, factor) ==
  /\ Len(a.vertices) = Len(b.vertices)
  /\ \A k \in DOMAIN a.vertices :
       a.vertices[k] = VScale(b.vertices[k], factor)
  /\ a.normals = b.normals
  /\ a.indices = b.indices

ScaledSurfaces(a, b, factor) ==
  /\ Len(a) = Len(b)
  /\ \A k \in DOMAIN a : ScaledArrays(a[k], b[k], factor)

ScaledBuild(ref, factor) ==
  /\ ScaledSurfaces(surfaces, ref.surfaces, factor)
  /\ \A d \in 0..(SIDE_COUNT - 1) :
       ScaledSurfaces(transition_surfaces[d], ref.transition_surfaces[d],
                      factor)

\* C11: build at lod k returns, for the regular surface and for every
\* transition surface, the vertices of build at lod 0 in the same number and
\* order with each position multiplied by 2^k, the same normals and the
\* same indices.
C11_LodScalesPositions ==
  BuildReturned => ScaledBuild(build(NewMesher, voxels, 0), Pow2(lod))

\* A build at a lod above 0 has returned a regular surface and a transition
\* surface with a vertex away from the origin.
C11_Witness ==
  /\ BuildReturned
  /\ lod > 0
  /\ surfaces # <<>>
  /\ \E k \in DOMAIN surfaces[1].vertices :
       surfaces[1].vertices[k] # <<0, 0, 0>>
  /\ \E d \in 0..(SIDE_COUNT - 1) : transition_surfaces[d] # <<>>

\* C12: what build returns for a block and a lod depends on them alone:
\* whatever calls the mesher has served before, on whatever blocks, the
\* surfaces and the buffers of a build that has returned are those of the
\* same build on a new mesher (so two builds in a row agree, and nothing of
\* an earlier build is left in the result).
C12_BuildIndependentOfHistory ==
  BuildReturned =>
    LET ref == build(NewMesher, voxels, lod)
    IN /\ surfaces = ref.surfaces
       /\ transition_surfaces = ref.transition_surfaces
       /\ output_vertices = ref.st.vertices
       /\ output_normals = ref.st.normals
       /\ output_extra = ref.st.extra
       /\ output_indices = ref.st.indices

\* A build has returned a regular surface and a transition surface for a
\* block, on a mesher that has served calls on blocks of two other sizes.
C12_Witness ==
  /\ BuildReturned
  /\ surfaces # <<>>
  /\ \E d \in 0..(SIDE_COUNT - 1) : transition_surfaces[d] # <<>>
  /\ Cardinality(earlier \ {voxels.size}) >= 2

\* The four output buffers are empty.
EmptyOutput ==
  /\ output_vertices = <<>>
  /\ output_normals = <<>>
  /\ output_extra = <<>>
  /\ output_indices = <<>>

\* C13: on a block whose SDF channel is uniform, whatever its value, build
\* and build_transition (any direction) append nothing to the four buffers:
\* a call on it returns an empty mesh and raises no error, also on a mesher
\* that has meshed other blocks before.
C13_UniformBlockIsEmpty ==
  (is_uniform(voxels) /\ mode # "none")
  => /\ pc # "crashed"
     /\ EmptyOutput
     /\ surfaces = <<>>
     /\ transition_surfaces = NoTransitionSurfaces
     /\ mesh = <<>>

\* A build has returned on a uniform block, on a mesher whose regular cache
\* was filled by a build on another block.
C13_Witness ==
  /\ is_uniform(voxels)
  /\ BuildReturned
  /\ earlier # {}
  /\ cache[0] # <<>>

\* The mesher with entry 0 of one reuse cell set to -1 and nothing else
\* changed.
RegularSlotReset(st, at) ==
  [st EXCEPT !.cache[at[3] % 2][at[2] * st.block_size[2] + at[1]][1] = -1]

TransitionSlotReset(st, fx, fy) ==
  [st EXCEPT !.cache_2d[fy % 2][fx][1] = -1]

\* Every sample of the block has the same sign bit.
OneSign(vb) ==
  \A x \in 0..(vb.size[1] - 1), y \in 0..(vb.size[2] - 1),
     z \in 0..(vb.size[3] - 1) :
    sign(Sample(vb, <<x, y, z>>)) = sign(Sample(vb, <<0, 0, 0>>))

\* C14: in both sweeps a cell whose case code is 0 or the all-ones value
\* (255 regular, 511 transition) appends nothing to the four buffers and
\* changes nothing but entry 0 of its own reuse cell, which it sets to -1;
\* so a block whose samples all have one sign gives an empty mesh also
\* when it is not flagged uniform.
C14_EmptyCaseAppendsNothing ==
  /\ (pc = "regular"
      /\ RegularCellContext(voxels, pos).case_code \in {0, 255})
     => RegularCell(St, voxels, pos) = RegularSlotReset(St, pos)
  /\ (pc = "transition"
      /\ TransitionCellContext(voxels, pos[1], pos[2], dir).case_code
           \in {0, 511})
     => TransitionCell(St, voxels, pos[1], pos[2], dir)
          = TransitionSlotReset(St, pos[1], pos[2])
  /\ (pc = "idle" /\ mode # "none" /\ OneSign(voxels))
     => /\ EmptyOutput
        /\ surfaces = <<>>
        /\ transition_surfaces = NoTransitionSurfaces
        /\ mesh = <<>>

\* The regular sweep is at a cell with case code 255 whose reuse cell holds
\* in entry 0 the vertex another cell of the sweep has stored there.
C14_Witness ==
  /\ pc = "regular"
  /\ RegularCellContext(voxels, pos).case_code = 255
  /\ get_reuse_cell(St, pos)[1] >= 0

\* A position, in units of 1/256 voxel, inside the unpadded extent of the
\* block: on each axis from 0 to size - 3.
InExtent(v, size) ==
  \A i \in 1..3 :
    0 <= v[i] /\ v[i] <= 256 * (size[i] - MIN_PADDING - MAX_PADDING)

\* C15: at lod 0 every vertex position written to the output, the padding
\* min_pos = (1,1,1) taken off, lies on each axis within [0, size - 3]: no
\* coordinate is negative or beyond the unpadded extent of the block.
C15_PositionsInExtent ==
  lod = 0 =>
    /\ \A k \in DOMAIN output_vertices :
         InExtent(output_vertices[k], voxels.size)
    /\ \A arrays \in ReturnedArrays :
         \A k \in DOMAIN arrays.vertices :
           InExtent(arrays.vertices[k], voxels.size)

\* A build at lod 0 has returned a regular surface with a vertex at the
\* top of the extent on some axis and a transition surface with a vertex
\* at the bottom of it.
C15_Witness ==
  /\ BuildReturned
  /\ lod = 0
  /\ surfaces # <<>>
  /\ \E k \in DOMAIN surfaces[1].vertices : \E i \in 1..3 :
       surfaces[1].vertices[k][i] = 256 * (voxels.size[i] - 3)
  /\ \E d \in 0..(SIDE_COUNT - 1) :
       /\ transition_surfaces[d] # <<>>
       /\ \E k \in DOMAIN transition_surfaces[d][1].vertices : \E i \in 1..3 :
            transition_surfaces[d][1].vertices[k][i] = 0

RawSignBit(u) == IF u > 127 THEN 1 ELSE 0

\* The face samples whose sign bits are bits 0..8 of a transition code.
TransitionBitSamples == <<0, 1, 2, 5, 8, 7, 6, 3, 4>>

\* The block position of face sample j (0..8, row by row) of the transition
\* cell at <<fx, fy>>.
FaceSamplePosition(fx, fy, j, direction, size) ==
  face_to_block(fx + (j % 3), fy + (j \div 3), MIN_PADDING, direction, size)

\* The case code of the regular cell at p.
RegularCaseCode(vb, p) == RegularCellContext(vb, p).case_code

\* C17: the sign bit of a sample is 1 exactly when its raw value u is above
\* 127, that is when (255 - u) - 128 < 0; bit i of the code of a regular
\* cell is the sign bit of the sample at the cell origin plus
\* (i&1, (i>>1)&1, (i>>2)&1), and bits 0..8 of the code of a transition cell
\* are the sign bits of the face samples 0, 1, 2, 5, 8, 7, 6, 3, 4.
C17_CaseCodeClassification ==
  /\ pc = "idle" =>
       \A u \in 0..255 :
         /\ tos(255 - u) = (255 - u) - 128
         /\ sign(tos(255 - u)) = RawSignBit(u)
  /\ pc = "regular" =>
       LET case_code == RegularCaseCode(voxels, pos)
       IN /\ case_code \in 0..255
          /\ \A i \in 0..7 :
               CaseBit(case_code, i)
                 = RawSignBit(RawSdf(voxels,
                                     VAdd(pos, <<i % 2, (i \div 2) % 2,
                                                 (i \div 4) % 2>>)))
  /\ pc = "transition" =>
       LET case_code == TransitionCellContext(voxels, pos[1], pos[2],
                                              dir).case_code
       IN /\ case_code \in 0..511
          /\ \A k \in 0..8 :
               CaseBit(case_code, k)
                 = RawSignBit(RawSdf(voxels,
                                     FaceSamplePosition(
                                       pos[1], pos[2],
                                       TransitionBitSamples[k + 1], dir,
                                       voxels.size)))

\* A transition sweep is at a cell with a surface in it, one of whose face
\* samples has the raw value 127, the highest one with sign bit 0.
C17_Witness ==
  /\ pc = "transition"
  /\ TransitionCellContext(voxels, pos[1], pos[2], dir).case_code
       \notin {0, 511}
  /\ \E j \in 0..8 :
       RawSdf(voxels, FaceSamplePosition(pos[1], pos[2], j, dir,
                                         voxels.size)) = 127

\* The cells of the two sweeps, and their place in the order of the loops.
RegularCells(size) ==
  {<<x, y, z>> : x \in MinPos[1]..(MaxPos(size)[1] - 1),
                 y \in MinPos[2]..(MaxPos(size)[2] - 1),
                 z \in MinPos[3]..(MaxPos(size)[3] - 1)}

RegularRank(c, size) == (c[3] * size[2] + c[2]) * size[1] + c[1]

FaceCells(size, d) ==
  {<<fx, fy>> : fx \in {v \in FaceBounds(size, d).min_fpos_x
                              ..(FaceBounds(size, d).max_fpos_x - 1) :
                          (v - FaceBounds(size, d).min_fpos_x) % FaceStep = 0},
                fy \in {v \in FaceBounds(size, d).min_fpos_y
                              ..(FaceBounds(size, d).max_fpos_y - 1) :
                          (v - FaceBounds(size, d).min_fpos_y) % FaceStep = 0}}

FaceRank(c) == c[2] * 16 + c[1]

\* The triangles the tables list for a cell.
RegularTriangleCount(vb, c) ==
  IF RegularCellContext(vb, c).case_code \in {0, 255} THEN 0
  ELSE get_regular_cell_data(RegularCellContext(vb, c).case_code)
         .geometryCounts % 16

TransitionTriangleCount(vb, c, d) ==
  IF TransitionCellContext(vb, c[1], c[2], d).case_code \in {0, 511} THEN 0
  ELSE get_transition_cell_data(
         TransitionCellContext(vb, c[1], c[2], d).case_code).triangleCount

\* A cell one of whose vertices breaks a precondition: an edge descriptor
\* with v1 <= v0 (regular sweep), or equal samples at the two ends.
RegularBreaks(vb, tbl, c) ==
  LET cs == RegularCellContext(vb, c)
  IN /\ cs.case_code \notin {0, 255}
     /\ \E i \in 0..(Len(RegularCaseEdges(cs.case_code)) - 1) :
          LET rvd == LinkedRegularVertexData(tbl, cs.case_code, i)
          IN \/ rvd % 16 <= (rvd \div 16) % 16
             \/ cs.cell_samples[rvd % 16]
                  = cs.cell_samples[(rvd \div 16) % 16]

TransitionBreaks(vb, tbl, c, d) ==
  LET cs == TransitionCellContext(vb, c[1], c[2], d)
  IN /\ cs.case_code \notin {0, 511}
     /\ \E i \in 0..(Len(TransitionCaseEdges(cs.case_code)) - 1) :
          LET edge_code == LinkedTransitionVertexData(tbl, cs.case_code, i)
          IN cs.cell_samples[edge_code % 16]
               = cs.cell_samples[(edge_code \div 16) % 16]

\* The place of the first cell that breaks a precondition, or a place past
\* every cell when there is none.
Lowest(ranks, past) ==
  IF ranks = {} THEN past ELSE CHOOSE r \in ranks : \A q \in ranks : r <= q

RegularFirstBreak(vb, tbl) ==
  Lowest({RegularRank(c, vb.size) :
            c \in {b \in RegularCells(vb.size) : RegularBreaks(vb, tbl, b)}},
         vb.size[1] * vb.size[2] * vb.size[3])

TransitionFirstBreak(vb, tbl, d) ==
  Lowest({FaceRank(c) :
            c \in {b \in FaceCells(vb.size, d) :
                     TransitionBreaks(vb, tbl, b, d)}},
         16 * 16)

RECURSIVE SumOver(_, _)
SumOver(S, count) ==
  IF S = {} THEN 0
  ELSE LET c == CHOOSE e \in S : TRUE
       IN count[c] + SumOver(S \ {c}, count)

\* Three indices for each triangle of the cells in S.
RegularIndexCount(vb, S) ==
  3 * SumOver(S, [c \in S |-> RegularTriangleCount(vb, c)])

TransitionIndexCount(vb, S, d) ==
  3 * SumOver(S, [c \in S |-> TransitionTriangleCount(vb, c, d)])

IndexCount(surf) == IF surf = <<>> THEN 0 ELSE Len(surf[1].indices)

\* The cells whose vertices are in a surface.
EmittingCells(surf) ==
  IF surf = <<>> THEN {}
  ELSE {surf[1].vlog[k].cell : k \in DOMAIN surf[1].vlog}

\* C18 as stated: a failed vertex precondition aborts the cell it occurs in
\* and no more: that cell gets no triangle, and every cell after it in the
\* sweep is polygonized, so a sweep that has returned has appended the
\* triangles of all its cells but the failing ones.
C18_Original_OnlyCellAborted ==
  /\ (BuildReturned /\ surfaces # <<>>)
     => IndexCount(surfaces)
          = RegularIndexCount(
              voxels, {c \in RegularCells(voxels.size) :
                         ~RegularBreaks(voxels, tables, c)})
  /\ (pc = "idle" /\ mode = "mesh")
     => Len(output_indices)
          = TransitionIndexCount(
              voxels, {c \in FaceCells(voxels.size, dir) :
                         ~TransitionBreaks(voxels, tables, c, dir)}, dir)

\* C18, amended: a failed vertex precondition ends the sweep: the cell it
\* occurs in gets no triangle, no cell after it in the order of the sweep
\* is visited (none gets a triangle, none emits a vertex), and what the
\* sweep has appended before stays in the buffers, which build goes on to
\* hand back and to follow with the transition sweeps.
C18_FailureEndsSweep ==
  /\ BuildReturned
     => /\ IndexCount(surfaces)
             = RegularIndexCount(
                 voxels, {c \in RegularCells(voxels.size) :
                            RegularRank(c, voxels.size)
                              < RegularFirstBreak(voxels, tables)})
        /\ \A c \in EmittingCells(surfaces) :
             RegularRank(c, voxels.size) <= RegularFirstBreak(voxels, tables)
        /\ surfaces # <<>> =>
             \A d \in 0..(SIDE_COUNT - 1) :
               /\ IndexCount(transition_surfaces[d])
                    = TransitionIndexCount(
                        voxels, {c \in FaceCells(voxels.size, d) :
                                   FaceRank(c) < TransitionFirstBreak(
                                                   voxels, tables, d)}, d)
               /\ \A c \in EmittingCells(transition_surfaces[d]) :
                    FaceRank(c) <= TransitionFirstBreak(voxels, tables, d)
  /\ (pc = "idle" /\ mode = "mesh")
     => /\ Len(output_indices)
             = TransitionIndexCount(
                 voxels, {c \in FaceCells(voxels.size, dir) :
                            FaceRank(c) < TransitionFirstBreak(voxels, tables,
                                                               dir)}, dir)
        /\ \A k \in DOMAIN vlog :
             FaceRank(vlog[k].cell)
               <= TransitionFirstBreak(voxels, tables, dir)

\* A build has returned whose regular sweep broke a precondition in a cell
\* between two cells with triangles: the surface has the triangles of the
\* cells before it and none of the cells after it.
C18_Witness ==
  /\ BuildReturned
  /\ IndexCount(surfaces) > 0
  /\ \E c \in RegularCells(voxels.size) :
       /\ RegularBreaks(voxels, tables, c)
       /\ \E b \in RegularCells(voxels.size) :
            /\ RegularRank(b, voxels.size) > RegularRank(c, voxels.size)
            /\ RegularTriangleCount(voxels, b) > 0

\* The gradient the code hands to normalized_not_null for an emitted vertex:
\* the corner gradient of p1 on the max corner of a regular cell and of the
\* endpoint the vertex is on in a transition cell, and the t-weighted
\* combination of the gradients of the two endpoints everywhere else.
UsedGradient(vb, e) ==
  IF e.sweep = "regular" /\ e.branch = "max_corner" THEN Gradient(vb, e.p1)
  ELSE IF e.sweep = "transition" /\ e.branch = "endpoint"
  THEN Gradient(vb, IF e.t = 0 THEN e.p1 ELSE e.p0)
  ELSE Interpolate(Gradient(vb, e.p0), Gradient(vb, e.p1), e.t)

NormalFollowsGradient(vb, e, normal) ==
  IF UsedGradient(vb, e) = <<0, 0, 0>> THEN normal = <<0, 1, 0>>
  ELSE normal = Direction(UsedGradient(vb, e))

\* C19: the normal of every vertex is (0,1,0) when the gradient used for
\* the vertex is the zero vector, and the direction of that gradient when it
\* is not: the fallback never stands in for a non-zero gradient.  While a
\* sweep runs this is looked at for the vertices of the cell that emitted
\* last (the buffers only grow), and once a call has returned for every
\* vertex of the buffers and of the arrays handed back.
C19_NormalFallback ==
  /\ Len(vlog) = Len(output_normals)
  /\ \A k \in DOMAIN vlog :
       (pc = "idle" \/ vlog[k].cell = vlog[Len(vlog)].cell)
       => NormalFollowsGradient(voxels, vlog[k], output_normals[k])
  /\ pc = "idle" =>
       \A arrays \in ReturnedArrays :
         \A k \in DOMAIN arrays.vlog :
           NormalFollowsGradient(voxels, arrays.vlog[k], arrays.normals[k])

\* A sweep has emitted a vertex whose gradient is the zero vector (on a voxel
\* at the isolevel whose six neighbours are equal) and a vertex whose
\* non-zero gradient has no y component.
C19_Witness ==
  /\ Len(vlog) = Len(output_normals)
  /\ \E k \in DOMAIN vlog :
       /\ UsedGradient(voxels, vlog[k]) = <<0, 0, 0>>
       /\ output_normals[k] = <<0, 1, 0>>
  /\ \E k \in DOMAIN vlog :
       /\ UsedGradient(voxels, vlog[k]) # <<0, 0, 0>>
       /\ output_normals[k][2] = 0

\* The cells of the regular sweep a log names come in the order of the
\* sweep: each entry against the one after it.
Ascending(log, size) ==
  \A k \in 1..(Len(log) - 1) :
    (log[k].sweep = "regular" /\ log[k + 1].sweep = "regular")
    => RegularRank(log[k].cell, size) <= RegularRank(log[k + 1].cell, size)

\* C20: the regular sweep visits its cells with z outermost, then y, then
\* x, each ascending: the cells that have emitted or looked up come in that
\* order in the histories and all stand before the cell the sweep is about
\* to visit; and every lookup of a cell targets a cell inside the sweep
\* region, other than the cell itself, that stands before it in that order.
C20_SweepOrderAndLookups ==
  /\ Ascending(vlog, voxels.size)
  /\ Ascending(rlog, voxels.size)
  /\ pc = "regular" =>
       /\ pos \in RegularCells(voxels.size)
       /\ \A k \in DOMAIN vlog :
            RegularRank(vlog[k].cell, voxels.size)
              < RegularRank(pos, voxels.size)
       /\ \A k \in DOMAIN rlog :
            RegularRank(rlog[k].cell, voxels.size)
              < RegularRank(pos, voxels.size)
  /\ \A k \in DOMAIN rlog :
       rlog[k].sweep = "regular" =>
         /\ rlog[k].target \in RegularCells(voxels.size)
         /\ rlog[k].target # rlog[k].cell
         /\ \A i \in 1..3 : /\ rlog[k].target[i] >= MinPos[i]
                            /\ rlog[k].target[i] <= rlog[k].cell[i]
         /\ RegularRank(rlog[k].target, voxels.size)
              < RegularRank(rlog[k].cell, voxels.size)

\* A regular sweep stands in its second z layer after lookups towards the
\* preceding cell in x, in y and in z, and after a cell on the minimal x
\* face made a lookup.
C20_Witness ==
  /\ pc = "regular"
  /\ pos[3] > MinPos[3]
  /\ \A i \in 1..3 :
       \E k \in DOMAIN rlog :
         /\ rlog[k].sweep = "regular"
         /\ rlog[k].target[i] = rlog[k].cell[i] - 1
  /\ \E k \in DOMAIN rlog : rlog[k].cell[1] = MinPos[1]

\* C21 as stated: for every block size and direction no access to a reuse
\* cache is out of the bounds of its deck or row: the crash check of
\* get_reuse_cell and get_reuse_cell_2d never stops a sweep.
C21_NoCacheCrash == pc # "crashed"

\* C22 as stated: within one deck no two distinct cells of the sweep region
\* map to the same slot of the reuse cache, whatever the block size: the
\* slot of the cell being visited belongs to no other cell of its layer.
C22_DistinctSlots ==
  pc = "regular" =>
    \A c \in RegularCells(block_size) :
      (c # pos /\ c[3] = pos[3]) =>
        ReuseIndex([block_size |-> block_size], c)
          # ReuseIndex([block_size |-> block_size], pos)

\* The vertex a lookup has taken from the reuse cache was emitted by the
\* cell looked up, on the edge of the reader (on the corner, for a vertex on
\* an endpoint), and stands where the reader would put it.
ReusedVertexIsTheReaders(s, e) ==
  /\ e.got < Len(s.vertices)
  /\ e.got < Len(s.vlog)
  /\ s.vlog[e.got + 1].sweep = "regular"
  /\ s.vlog[e.got + 1].cell = e.target
  /\ e.t % 256 # 0 =>
       /\ s.vlog[e.got + 1].p0 = e.p0
       /\ s.vlog[e.got + 1].p1 = e.p1
       /\ e.slot \in 1..3
  /\ e.t % 256 = 0 =>
       /\ s.vlog[e.got + 1].branch = "max_corner"
       /\ s.vlog[e.got + 1].p1 = (IF e.t = 0 THEN e.p1 ELSE e.p0)
       /\ e.slot = 0
  /\ s.vertices[e.got + 1]
       = VAdd(Interpolate(e.p0, e.p1, e.t),
              VScale(<<1, 1, 1>>, -256 * MIN_PADDING))

\* The lookups of a sweep, up to and with the cell that has just run.
LookupsSound(s) ==
  \A k \in DOMAIN s.rlog :
    (s.rlog[k].sweep = "regular" /\ s.rlog[k].got >= 0)
    => ReusedVertexIsTheReaders(s, s.rlog[k])

\* C23: on a block with size.x = size.y, whenever a cell of the regular
\* sweep takes a vertex index from the reuse cache, the vertex was emitted
\* earlier in the same sweep by the cell looked up and its position is the
\* one the reader would compute; an index left in slots 1..3 by the cell two
\* layers below, or the index of another edge, is never taken.  Stated of
\* the cell the sweep is about to run, the last cell included.
C23_ReuseIsSound ==
  (pc = "regular" /\ voxels.size[1] = voxels.size[2])
  => LookupsSound(RegularCell(St, voxels, pos))

\* A cell of the third layer or above takes a vertex from the reuse cell of
\* a cell of its layer while another slot of that reuse cell still holds an
\* index written by the cell two layers below.
C23_Witness ==
  /\ pc = "regular"
  /\ voxels.size[1] = voxels.size[2]
  /\ pos[3] >= MinPos[3] + 2
  /\ \E k \in DOMAIN RegularCell(St, voxels, pos).rlog :
       LET e == RegularCell(St, voxels, pos).rlog[k]
       IN /\ e.cell = pos
          /\ e.got >= 0
          /\ e.target[3] = pos[3]
          /\ \E j \in 1..3 :
               /\ get_reuse_cell(St, e.target)[j + 1] >= 0
               /\ vlog[get_reuse_cell(St, e.target)[j + 1] + 1].cell
                    = VAdd(e.target, <<0, 0, -2>>)

\* The voxels Gradient reads around p: the six neighbours.
GradientReads(p) ==
  {VAdd(p, <<-1, 0, 0>>), VAdd(p, <<1, 0, 0>>), VAdd(p, <<0, -1, 0>>),
   VAdd(p, <<0, 1, 0>>), VAdd(p, <<0, 0, -1>>), VAdd(p, <<0, 0, 1>>)}

\* The voxels a regular cell reads: its eight corners (the texture index is
\* read at corner 0) and the neighbours of each for the gradients.
RegularReads(vb, p) ==
  {RegularCellContext(vb, p).corner_positions[i] : i \in 0..7}
  \cup UNION {GradientReads(RegularCellContext(vb, p).corner_positions[i])
               : i \in 0..7}

\* The voxels a transition cell reads: its nine samples (the texture index is
\* read at sample 0) and the neighbours of each for the gradients.
TransitionReads(vb, fx, fy, d) ==
  {TransitionCellPositions(fx, fy, d, vb.size)[i] : i \in 0..8}
  \cup UNION {GradientReads(TransitionCellPositions(fx, fy, d, vb.size)[i])
               : i \in 0..8}

\* C24: every voxel coordinate a sweep reads (corner samples, the six
\* gradient neighbours of each corner, the 3x3 samples of a transition cell
\* and their gradient neighbours, the texture index) lies inside the block,
\* 0 <= coordinate < size on each axis, whatever the block size.  Stated of
\* the cell each sweep is about to run.
C24_ReadsInsideBlock ==
  /\ pc = "regular" => \A p \in RegularReads(voxels, pos) : InBounds(voxels, p)
  /\ pc = "transition" =>
       \A p \in TransitionReads(voxels, pos[1], pos[2], dir) :
         InBounds(voxels, p)

\* A transition sweep of a positive face of a block with unequal sides is
\* about to read a voxel of the last plane of the block across the face and
\* a voxel of the first plane along a face axis.
C24_Witness ==
  /\ pc = "transition"
  /\ dir = SIDE_POSITIVE_Z
  /\ voxels.size[1] # voxels.size[2]
  /\ \E p \in TransitionReads(voxels, pos[1], pos[2], dir) :
       p[3] = voxels.size[3] - 1
  /\ \E p \in TransitionReads(voxels, pos[1], pos[2], dir) : p[1] = 0

\* What is claimed of t for the samples d0 and d1 of an edge.
TWithinEdge(d0, d1, t) ==
  /\ t \in 0..256
  /\ t = 0 <=> d1 = 0
  /\ t = 256 <=> d0 = 0
  /\ (d0 # 0 /\ d1 # 0) => t % 256 # 0

\* C25: for signed samples d0, d1 in -128..127 with different sign bits,
\* t = (d1 * 256) / (d1 - d0) in truncating division lies in 0..256, is 0
\* exactly when d1 = 0 and 256 exactly when d0 = 0, and has a non-zero low
\* byte otherwise.  Stated of the t of every vertex the sweeps have emitted,
\* and, once a call has returned, of the sample of the block's voxel against
\* every sample of the other sign, in both orders.
C25_InterpolationT ==
  /\ \A k \in DOMAIN vlog :
       /\ sign(Sample(voxels, vlog[k].p0)) # sign(Sample(voxels, vlog[k].p1))
       /\ vlog[k].t = InterpolationT(Sample(voxels, vlog[k].p0),
                                     Sample(voxels, vlog[k].p1))
       /\ TWithinEdge(Sample(voxels, vlog[k].p0),
                      Sample(voxels, vlog[k].p1), vlog[k].t)
  /\ pc = "idle" =>
       \A p \in DOMAIN voxels.sp, d \in -128..127 :
         sign(d) # sign(Sample(voxels, p)) =>
           /\ TWithinEdge(Sample(voxels, p), d,
                          InterpolationT(Sample(voxels, p), d))
           /\ TWithinEdge(d, Sample(voxels, p),
                          InterpolationT(d, Sample(voxels, p)))

\* build has returned on a block whose voxel is at the isolevel: the
\* regular sweep has emitted a vertex with t = 0 (d1 = 0) and one with
\* t = 256 (d0 = 0), and a transition sweep a vertex on an endpoint.
C25_Witness ==
  /\ pc = "idle"
  /\ mode = "build"
  /\ surfaces # <<>>
  /\ \E k \in DOMAIN surfaces[1].vlog :
       /\ surfaces[1].vlog[k].t = 0
       /\ Sample(voxels, surfaces[1].vlog[k].p1) = 0
  /\ \E k \in DOMAIN surfaces[1].vlog :
       /\ surfaces[1].vlog[k].t = 256
       /\ Sample(voxels, surfaces[1].vlog[k].p0) = 0
  /\ \E d \in 0..(SIDE_COUNT - 1) :
       \E j \in DOMAIN transition_surfaces[d] :
         \E k \in DOMAIN transition_surfaces[d][j].vlog :
           transition_surfaces[d][j].vlog[k].t % 256 = 0

\* The number of 2x2 cells that fit in the regular cells along a face axis:
\* half of size - 3, rounded down.
TileCount(size, d, k) == (Axis(size, get_face_axes(d)[k]) - 3) \div 2

\* The origins of the 2x2 cells of a face, from min_pos on.
Tiles(size, d) ==
  {<<1 + 2 * i, 1 + 2 * j>> : i \in 0..(TileCount(size, d, 1) - 1),
                              j \in 0..(TileCount(size, d, 2) - 1)}

\* The tile after p, fx innermost, or <<>> after the last one.
TileAfter(p, size, d) ==
  IF <<p[1] + 2, p[2]>> \in Tiles(size, d) THEN <<p[1] + 2, p[2]>>
  ELSE IF <<1, p[2] + 2>> \in Tiles(size, d) THEN <<1, p[2] + 2>>
  ELSE <<>>

\* The sample positions of the face the cells of a set cover.
CoveredBy(cells) ==
  UNION {{<<x, y>> : x \in c[1]..(c[1] + 2), y \in c[2]..(c[2] + 2)}
          : c \in cells}

\* The sample positions of the face between min_pos and max_pos.
FaceRegion(size, d) ==
  {<<x, y>> : x \in 1..(Axis(size, get_face_axes(d)[1]) - 2),
              y \in 1..(Axis(size, get_face_axes(d)[2]) - 2)}

\* Both face axes have an odd length of 5 or more: an even number of
\* regular cells, two at least.
OddFace(size, d) ==
  \A k \in 1..2 : /\ Axis(size, get_face_axes(d)[k]) >= 5
                  /\ Axis(size, get_face_axes(d)[k]) % 2 = 1

TilingStep ==
  /\ (pc = "idle" /\ mode' = "mesh" /\ ~is_uniform(voxels))
     => (pc' = "transition" <=> Tiles(voxels.size, dir') # {})
  /\ (pc' = "transition" /\ (pc # "transition" \/ dir' # dir))
     => pos' = <<1, 1>> /\ pos' \in Tiles(voxels.size, dir')
  /\ (mode' = "build" /\ pc' = "transition"
      /\ (pc # "transition" \/ dir' # dir))
     => \A k \in 0..(dir' - 1) :
          (pc = "transition" => k > dir) => Tiles(voxels.size, k) = {}
  /\ (mode' = "build" /\ pc # "idle" /\ pc' = "idle" /\ surfaces' # <<>>)
     => \A k \in 0..(SIDE_COUNT - 1) :
          (pc = "transition" => k > dir) => Tiles(voxels.size, k) = {}
  /\ (pc = "transition" /\ pc' # "crashed")
     => /\ pos \in Tiles(voxels.size, dir)
        /\ IF TileAfter(pos, voxels.size, dir) # <<>>
           THEN /\ pc' = "transition"
                /\ dir' = dir
                /\ pos' = TileAfter(pos, voxels.size, dir)
           ELSE ~(pc' = "transition" /\ dir' = dir)
  /\ CoveredBy(Tiles(voxels.size, dir)) \subseteq FaceRegion(voxels.size, dir)
  /\ OddFace(voxels.size, dir)
     <=> CoveredBy(Tiles(voxels.size, dir)) = FaceRegion(voxels.size, dir)

AxisAcross(d) ==
  IF d = SIDE_NEGATIVE_X \/ d = SIDE_POSITIVE_X THEN 0
  ELSE IF d = SIDE_NEGATIVE_Y \/ d = SIDE_POSITIVE_Y THEN 1
  ELSE 2

PositiveFace(d) ==
  d = SIDE_POSITIVE_X \/ d = SIDE_POSITIVE_Y \/ d = SIDE_POSITIVE_Z

\* face_to_block puts x on the first axis of get_face_axes, y on the second,
\* and z on the axis across the face, counted from the face.
FaceMapAgrees(x, y, z, d, bs) ==
  /\ {get_face_axes(d)[1], get_face_axes(d)[2], AxisAcross(d)} = {0, 1, 2}
  /\ Axis(face_to_block(x, y, z, d, bs), get_face_axes(d)[1]) = x
  /\ Axis(face_to_block(x, y, z, d, bs), get_face_axes(d)[2]) = y
  /\ Axis(face_to_block(x, y, z, d, bs), AxisAcross(d))
       = (IF PositiveFace(d) THEN Axis(bs, AxisAcross(d)) - 1 - z ELSE z)

\* C27: for each of the six directions face_to_block puts fx on the block
\* axis ax and fy on the block axis ay of get_face_axes, and with fz = 1 the
\* remaining coordinate is min_pos = 1 on a negative face and
\* max_pos = size - 2 on a positive face.  Stated of every face position of
\* the block at hand in the six directions, and of the nine sample positions
\* of the cell a transition sweep is about to run.
C27_FaceAxesAgree ==
  /\ \A d \in 0..(SIDE_COUNT - 1) :
       \A x \in 0..(voxels.size[1] + voxels.size[2] + voxels.size[3]) :
         \A y \in 0..3 :
           /\ FaceMapAgrees(x, y, MIN_PADDING, d, voxels.size)
           /\ FaceMapAgrees(y, x, 0, d, voxels.size)
           /\ Axis(face_to_block(x, y, MIN_PADDING, d, voxels.size),
                   AxisAcross(d))
                = (IF PositiveFace(d)
                   THEN Axis(MaxPos(voxels.size), AxisAcross(d))
                   ELSE Axis(MinPos, AxisAcross(d)))
  /\ pc = "transition" =>
       \A i \in 0..8 :
         /\ Axis(TransitionCellPositions(pos[1], pos[2], dir, voxels.size)[i],
                 get_face_axes(dir)[1]) = pos[1] + (i % 3)
         /\ Axis(TransitionCellPositions(pos[1], pos[2], dir, voxels.size)[i],
                 get_face_axes(dir)[2]) = pos[2] + (i \div 3)
         /\ Axis(TransitionCellPositions(pos[1], pos[2], dir, voxels.size)[i],
                 AxisAcross(dir))
              = (IF PositiveFace(dir)
                 THEN voxels.size[AxisAcross(dir) + 1] - 2 ELSE 1)

\* build runs the transition sweep of the +X face of a block with
\* size.y # size.z and stands on a cell with fx # fy: sample 0 of the cell is
\* at (size.x - 2, fy, fx).
C27_Witness ==
  /\ pc = "transition"
  /\ mode = "build"
  /\ dir = SIDE_POSITIVE_X
  /\ voxels.size[2] # voxels.size[3]
  /\ pos[1] # pos[2]
  /\ TransitionCellPositions(pos[1], pos[2], dir, voxels.size)[0]
       = <<voxels.size[1] - 2, pos[2], pos[1]>>

\* build_transition for direction d on the block at hand, by a mesher that
\* has emitted nothing before.
TransitionAlone(d) == build_transition(clear_output(NewMesher), voxels, d)

\* C28: once build has returned, the transition surface stored for a
\* direction d holds exactly the vertices, normals, extras and indices that
\* build_transition emits for d on the block, after scale_output(2^lod) when
\* lod > 0 (which multiplies the positions and the colour components of the
\* extras), with nothing of the regular sweep or of another direction; a
\* direction whose sweep emits no vertex has no surface, and no direction
\* has one when the regular sweep has emitted nothing.
C28_TransitionSurfaces ==
  BuildReturned =>
    \A d \in 0..(SIDE_COUNT - 1) :
      transition_surfaces[d]
        = (IF surfaces # <<>> /\ Len(TransitionAlone(d).vertices) > 0
           THEN <<fill_surface_arrays(RegularScaled(TransitionAlone(d), lod))>>
           ELSE <<>>)

\* build at a lod above 0 has returned a regular surface, transition
\* surfaces that differ for two directions, and none for a third direction.
C28_Witness ==
  /\ BuildReturned
  /\ lod > 0
  /\ surfaces # <<>>
  /\ \E d \in 0..(SIDE_COUNT - 1), e \in 0..(SIDE_COUNT - 1) :
       /\ transition_surfaces[d] # <<>>
       /\ transition_surfaces[e] # <<>>
       /\ transition_surfaces[d] # transition_surfaces[e]
       /\ transition_surfaces[d][1].vertices # surfaces[1].vertices
  /\ \E d \in 0..(SIDE_COUNT - 1) : transition_surfaces[d] = <<>>

\* What is claimed of the offset delta (in 1/1024) on one axis, q (in 1/256)
\* being the position above min_pos and S the unpadded length: the value of
\* the three cases, the first taking precedence; non-zero only within one
\* cell of a face; positive, away from the minimum face, only in the minimum
\* cell and negative only in the maximum cell; a quarter at most.
OffsetAsClaimed(q, S, delta) ==
  /\ delta = (IF q < 256 THEN 256 - q
              ELSE IF q > 256 * (S - 1) THEN 256 * (S - 1) - q
              ELSE 0)
  /\ delta # 0 => (q < 256 \/ q > 256 * (S - 1))
  /\ delta > 0 => q < 256
  /\ delta < 0 => q > 256 * (S - 1)
  /\ delta >= -256 /\ delta <= 256

\* The offset get_secondary_position asks for at lod 0 for a vertex of the
\* history: its padded primary position against the unpadded block size.
OffsetOfVertex(vb, e) ==
  get_border_offset(Interpolate(e.p0, e.p1, e.t), 0,
                    block_size_without_padding(vb.size), MinPos)

\* C29: at lod 0 get_border_offset returns on each axis, with
\* q = p - min_pos and S the block size without padding, (1 - q) * 0.25 when
\* q < 1, else (S - 1 - q) * 0.25 when q > S - 1, else 0; for every vertex
\* position of the sweep region (q in [0, S]) the offset is non-zero only
\* within one cell of a face, points away from that face, and is 0.25 at
\* most in magnitude.  Stated of every vertex the sweeps have emitted, and,
\* once a call has returned, of every position q in [0, S] in steps of 1/256
\* for S = 1..4.
C29_BorderOffset ==
  /\ \A k \in DOMAIN vlog :
       \A i \in 1..3 :
         /\ Interpolate(vlog[k].p0, vlog[k].p1, vlog[k].t)[i] - 256 * MinPos[i]
              \in 0..(256 * block_size_without_padding(voxels.size)[i])
         /\ OffsetAsClaimed(
              Interpolate(vlog[k].p0, vlog[k].p1, vlog[k].t)[i]
                - 256 * MinPos[i],
              block_size_without_padding(voxels.size)[i],
              OffsetOfVertex(voxels, vlog[k])[i])
  /\ pc = "idle" =>
       \A S \in 1..4 :
         \A q \in 0..(256 * S) :
           \A i \in 1..3 :
             OffsetAsClaimed(
               q, S,
               get_border_offset(VScale(<<1, 1, 1>>, 256 * MIN_PADDING + q),
                                 0, <<S, S, S>>, MinPos)[i])

\* A regular sweep has emitted a vertex inside the minimum cell on x, with a
\* positive offset below a quarter, and a vertex inside the maximum cell on
\* x, with a negative one; the first has no offset on y, where it stands
\* between the two cells.
C29_Witness ==
  /\ pc = "regular"
  /\ \E k \in DOMAIN vlog :
       /\ OffsetOfVertex(voxels, vlog[k])[1] \in 1..255
       /\ OffsetOfVertex(voxels, vlog[k])[2] = 0
  /\ \E k \in DOMAIN vlog :
       /\ OffsetOfVertex(voxels, vlog[k])[1] < 0
       /\ OffsetOfVertex(voxels, vlog[k])[1] > -256
====
